---- MODULE Spec2Model ----
(***************************************************************************)
(* Rollout optimizer of build_city_portfolio (src/scenario_runner.py).     *)
(*                                                                         *)
(* Units: portfolio objectives in 100,000 EUR, capex and budgets in        *)
(* 10,000,000 EUR, loss probabilities, risk caps and the reserve ratio in  *)
(* percent.  Bitmasks of the source are sets; candidate ids and data-frame *)
(* indices are 1-based positions.                                          *)
(***************************************************************************)
EXTENDS Integers, Sequences, FiniteSets, TLC

\* ------------------------------------------------------------------ bounds
NumCities == 3
MaxYears == 4

\* city rows the recommendation table is drawn from
\* (objective in 100k EUR, loss probability in percent, capex in 10M EUR)
CityProfiles ==
    {[objective |-> 9,   loss |-> 20, capex |-> 5, state |-> "BY"],
     [objective |-> 9,   loss |-> 20, capex |-> 6, state |-> "HE"],
     [objective |-> 6,   loss |-> 20, capex |-> 4, state |-> "NW"],
     [objective |-> 6,   loss |-> 50, capex |-> 4, state |-> "BY"],
     [objective |-> -6,  loss |-> 20, capex |-> 4, state |-> "HE"],
     [objective |-> -6,  loss |-> 50, capex |-> 5, state |-> "NW"],
     [objective |-> -30, loss |-> 20, capex |-> 5, state |-> "HE"]}

\* one year of the constraint lists: gross budget (10M EUR), launch limit, risk cap (percent)
YearProfiles ==
    {[budget |-> 10, max_new |-> 2, cap |-> 40],
     [budget |-> 15, max_new |-> 1, cap |-> 50]}
ReserveValues == {10}
MinDistinctValues == {2, 3}

\* ------------------------------------------------------- program constants
GO_MIN_OBJECTIVE == 0
GO_MAX_LOSS == 35
CONDITIONAL_MIN_OBJECTIVE == -20
CONDITIONAL_MAX_LOSS == 55
DIVERSIFICATION_WINDOW == 3
DIVERSIFICATION_BONUS == 4
UNASSIGNED_YEAR == -1
NaN == -1

VARIABLES
    cities,                 \* city_recommendation_df rows (inputs of the optimizer)
    cfg,                    \* budget and optimization constraints
    pc,                     \* position in build_city_portfolio
    df_index_arr,           \* candidate id -> row of city_recommendation_df
    year,                   \* loop variable of the greedy loop
    launched_mask,          \* candidate ids launched so far
    state_mask_first3,      \* states secured inside the window
    schedule,               \* selected ids per processed year
    optimization_feasible,
    plan,                   \* optimizer columns of city_recommendation_df
    call,                   \* arguments of a call of one of the other functions
    result,                 \* what that call returned or raised
    heap,                   \* the dict objects of config_loader, by address
    loaded,                 \* the configs load_config has returned so far
    refresh_data            \* data/latest_inputs.json

vars == <<cities, cfg, pc, df_index_arr, year, launched_mask,
          state_mask_first3, schedule, optimization_feasible, plan,
          call, result, heap, loaded, refresh_data>>

\* no call of another function is in progress / has returned
NoCall == [fn |-> "none"]

\* config_loader is not in use
loader_vars == <<heap, loaded, refresh_data>>
LoaderIdle ==
    /\ heap = <<>>
    /\ loaded = <<>>
    /\ refresh_data = [exists |-> FALSE]

\* ------------------------------------------------------------------ helpers
Min(a, b) == IF a < b THEN a ELSE b
Max(a, b) == IF a > b THEN a ELSE b

RECURSIVE SumSeq(_)
SumSeq(s) == IF s = <<>> THEN 0 ELSE Head(s) + SumSeq(Tail(s))

RECURSIVE SumOver(_, _)
SumOver(S, f) ==
    IF S = {} THEN 0
    ELSE LET x == CHOOSE x \in S : TRUE IN f[x] + SumOver(S \ {x}, f)

Range(s) == {s[i] : i \in DOMAIN s}

\* ------------------------------------------------------------ board signal
\* mutant: both objective thresholds are inclusive
BoardSignalInclusive(objective, loss) ==
    IF objective >= GO_MIN_OBJECTIVE /\ loss <= GO_MAX_LOSS THEN "GO"
    ELSE IF objective >= CONDITIONAL_MIN_OBJECTIVE /\ loss <= CONDITIONAL_MAX_LOSS
         THEN "CONDITIONAL"
         ELSE "NO-GO"

BoardSignal(objective, loss) ==
    IF objective > GO_MIN_OBJECTIVE /\ loss <= GO_MAX_LOSS THEN "GO"
    ELSE IF objective > CONDITIONAL_MIN_OBJECTIVE /\ loss <= CONDITIONAL_MAX_LOSS
         THEN "CONDITIONAL"
         ELSE "NO-GO"

board_signal(i) == BoardSignal(cities[i].objective, cities[i].loss)

\* ------------------------------------------------------------ configuration
planning_years == Min(Len(cfg.budgets), Min(Len(cfg.max_new), Len(cfg.caps)))

\* usable budget of a year, times 100 (the reserve ratio is in percent)
UsableBudget100(y) == cfg.budgets[y] * Max(0, 100 - cfg.reserve)

\* ---------------------------------------------------------------- candidates
RECURSIVE FilterCandidates(_)
FilterCandidates(i) ==
    IF i > Len(cities) THEN <<>>
    ELSE (IF board_signal(i) # "NO-GO" THEN <<i>> ELSE <<>>) \o FilterCandidates(i + 1)

\* mutant: the NO-GO filter is missing
CandidateRowsUnfiltered == [i \in 1..Len(cities) |-> i]

\* candidate_df: the rows whose board signal is not NO-GO, in table order
CandidateRows == FilterCandidates(1)
n_candidates == Len(df_index_arr)

capex_arr(cid) == cities[df_index_arr[cid]].capex
loss_arr(cid) == cities[df_index_arr[cid]].loss
objective_arr(cid) == cities[df_index_arr[cid]].objective
state_mask_arr(cid) == {cities[df_index_arr[cid]].state}

state_list == {cities[df_index_arr[cid]].state : cid \in 1..n_candidates}
\* mutant: the window spans the whole planning horizon
first3_years_all == planning_years

first3_years == Min(DIVERSIFICATION_WINDOW, planning_years)
\* mutant: the configured minimum is enforced as it is
required_states_configured == cfg.min_distinct

required_states == Min(cfg.min_distinct, Cardinality(state_list))

\* ------------------------------------------------------- bundle enumeration
PrependAll(x, ss) == [i \in 1..Len(ss) |-> <<x>> \o ss[i]]

\* itertools.combinations(range(lo, n), k): ascending tuples in lexicographic order
RECURSIVE LexCombos(_, _, _)
LexCombos(lo, n, k) ==
    IF k = 0 THEN << <<>> >>
    ELSE IF lo > n THEN <<>>
    ELSE PrependAll(lo, LexCombos(lo + 1, n, k - 1)) \o LexCombos(lo + 1, n, k)

\* for k in range(1, min(max_new, n_candidates) + 1): for combo in combinations(...)
RECURSIVE CombosFrom(_, _)
CombosFrom(k, kmax) ==
    IF k > kmax THEN <<>>
    ELSE LexCombos(1, n_candidates, k) \o CombosFrom(k + 1, kmax)

\* mutant: the per-year launch limit is not applied to the subset size
ComboSizeLimitUncapped(max_new) == n_candidates

ComboSizeLimit(max_new) == Min(max_new, n_candidates)

CapexSum(combo) == SumSeq([i \in 1..Len(combo) |-> capex_arr(combo[i])])
LossSum(combo) == SumSeq([i \in 1..Len(combo) |-> loss_arr(combo[i])])
ScoreSum(combo) == SumSeq([i \in 1..Len(combo) |-> objective_arr(combo[i])])

\* mutant: the filter compares with the gross budget, not the usable one
OverGrossBudget(combo, y) == CapexSum(combo) > cfg.budgets[y]

\* capex_sum > budget -> continue
OverBudget(combo, y) == CapexSum(combo) * 100 > UsableBudget100(y)

\* mutant: the filter reads the risk cap of the last planning year
OverLastRiskCap(combo, y) == LossSum(combo) > cfg.caps[planning_years] * Len(combo)

\* risk_avg > risk_cap -> continue   (mean = LossSum / len)
OverRiskCap(combo, y) == LossSum(combo) > cfg.caps[y] * Len(combo)

EmptyBundle ==
    [ids |-> <<>>, mask |-> {}, state_mask |-> {}, score |-> 0,
     capex_sum |-> 0, risk_avg |-> [num |-> 0, den |-> 1]]

MakeBundle(combo) ==
    [ids |-> combo,
     mask |-> Range(combo),
     state_mask |-> UNION {state_mask_arr(cid) : cid \in Range(combo)},
     score |-> ScoreSum(combo),
     capex_sum |-> CapexSum(combo),
     risk_avg |-> [num |-> LossSum(combo), den |-> Len(combo)]]

\* bundles in the order they are appended (before the sort)
RECURSIVE FeasibleBundles(_, _)
FeasibleBundles(combos, y) ==
    IF combos = <<>> THEN <<>>
    ELSE (IF OverBudget(Head(combos), y) \/ OverRiskCap(Head(combos), y)
          THEN <<>> ELSE <<MakeBundle(Head(combos))>>)
         \o FeasibleBundles(Tail(combos), y)

EnumerateBundles(y) ==
    <<EmptyBundle>> \o FeasibleBundles(CombosFrom(1, ComboSizeLimit(cfg.max_new[y])), y)

\* bundles.sort(key=score, reverse=True): stable, so a bundle moves behind
\* every bundle of higher score and every earlier bundle of equal score
SortedPos(s, i) ==
    1 + Cardinality({k \in DOMAIN s :
                        \/ s[k].score > s[i].score
                        \/ s[k].score = s[i].score /\ k < i})

SortBundles(s) == [j \in DOMAIN s |-> s[CHOOSE i \in DOMAIN s : SortedPos(s, i) = j]]

\* yearly_bundles[year]: a function of the inputs, computed where it is read
yearly_bundles(y) == SortBundles(CHOOSE e \in {EnumerateBundles(y)} : TRUE)

\* ---------------------------------------------------------------- greedy loop
\* mutant: the launches of the current year are counted again
RemainingLaunchesFromThisYear(y) ==
    IF first3_years - y > 0
    THEN SumSeq(SubSeq(cfg.max_new, y, first3_years))
    ELSE 0

\* sum(max_new_per_year[year:first3_years]) if years_left > 0 else 0
RemainingLaunches(y) ==
    IF first3_years - y > 0
    THEN SumSeq(SubSeq(cfg.max_new, y + 1, first3_years))
    ELSE 0

\* mutant: a bundle is skipped only when all its cities are launched already
OverlapsEntirely(b) == b.mask # {} /\ b.mask \subseteq launched_mask

\* bundle_mask & launched_mask
Overlaps(b) == b.mask \cap launched_mask # {}

\* the bundle is not skipped by the overlap test nor by the lookahead
Survives(b, y) ==
    /\ ~Overlaps(b)
    /\ y <= first3_years =>
         LET next_launched == launched_mask \cup b.mask
             next_state_mask == state_mask_first3 \cup b.state_mask
             available_state_mask ==
                 UNION {state_mask_arr(rid) : rid \in (1..n_candidates) \ next_launched}
             unseen_state_count == Cardinality(available_state_mask \ next_state_mask)
             max_new_states_possible ==
                 Cardinality(next_state_mask) + Min(unseen_state_count, RemainingLaunches(y))
         IN /\ ~(max_new_states_possible < required_states)
            /\ ~(y = first3_years /\ Cardinality(next_state_mask) < required_states)

\* mutant: no diversification bonus
BundleScoreRaw(b, y) == b.score

\* bundle_score with the diversification bonus
BundleScore(b, y) ==
    IF y <= first3_years
    THEN b.score + Cardinality(b.state_mask \ state_mask_first3)
                     * (DIVERSIFICATION_BONUS * (first3_years - y + 1))
    ELSE b.score

\* mutant: only the head of the year's list is looked at
ScanFirstBundle(bundles, i, best, y) == IF Survives(bundles[1], y) THEN 1 ELSE 0

\* the scan of yearly_bundles[year]; best = 0 is best_bundle None (score -inf)
RECURSIVE ScanBundles(_, _, _, _)
ScanBundles(bundles, i, best, y) ==
    IF i > Len(bundles) THEN best
    ELSE IF /\ Survives(bundles[i], y)
            /\ (best = 0 \/ BundleScore(bundles[i], y) > BundleScore(bundles[best], y))
         THEN ScanBundles(bundles, i + 1, i, y)
         ELSE ScanBundles(bundles, i + 1, best, y)

\* -------------------------------------------------------------------- plan rows
NaNRatio == [num |-> NaN, den |-> 1]

DefaultRow ==
    [rollout_year |-> UNASSIGNED_YEAR,
     launch_wave |-> "Hold",
     year_capex_budget_eur |-> NaN,
     year_capex_used_eur |-> NaN,
     year_risk_cap |-> NaN,
     year_loss_risk_avg |-> NaNRatio,
     selected_by_optimizer |-> FALSE,
     optimization_status |-> "UNASSIGNED"]

\* city_recommendation_df["optimization_status"] = status (the whole column)
SetStatus(p, status) == [i \in DOMAIN p |-> [p[i] EXCEPT !.optimization_status = status]]

\* mutant: year 3 falls into the last wave
LaunchWaveEarlyOption(y) ==
    IF y = 1 THEN "Wave 1 Pilot"
    ELSE IF y = 2 THEN "Wave 2 Scale"
    ELSE IF y > 0 THEN "Wave 3 Option"
    ELSE "Hold"

LaunchWave(y) ==
    IF y = 1 THEN "Wave 1 Pilot"
    ELSE IF y \in {2, 3} THEN "Wave 2 Scale"
    ELSE IF y > 0 THEN "Wave 3 Option"
    ELSE "Hold"

MapLaunchWave(p) == [i \in DOMAIN p |-> [p[i] EXCEPT !.launch_wave = LaunchWave(p[i].rollout_year)]]

\* mutant: the budget column gets the budget after the reserve
SelectedRowUsableBudget(row, y, combo) ==
    [row EXCEPT !.rollout_year = y,
                !.year_capex_budget_eur = UsableBudget100(y) \div 100,
                !.year_capex_used_eur = CapexSum(combo),
                !.year_risk_cap = cfg.caps[y],
                !.year_loss_risk_avg = [num |-> LossSum(combo), den |-> Len(combo)],
                !.selected_by_optimizer = TRUE,
                !.optimization_status = "HARD_CONSTRAINED_SELECTION"]

\* the row written for a city selected in year y with bundle ids combo
SelectedRow(row, y, combo) ==
    [row EXCEPT !.rollout_year = y,
                !.year_capex_budget_eur = cfg.budgets[y],
                !.year_capex_used_eur = CapexSum(combo),
                !.year_risk_cap = cfg.caps[y],
                !.year_loss_risk_avg = [num |-> LossSum(combo), den |-> Len(combo)],
                !.selected_by_optimizer = TRUE,
                !.optimization_status = "HARD_CONSTRAINED_SELECTION"]

\* for year, combo in enumerate(schedule, start=1): write the rows of combo
RECURSIVE WriteBack(_, _)
WriteBack(p, y) ==
    IF y > Len(schedule) \/ y > planning_years THEN p
    ELSE LET combo == schedule[y]
             rows == {df_index_arr[combo[k]] : k \in 1..Len(combo)}
         IN WriteBack([i \in DOMAIN p |->
                          IF i \in rows THEN SelectedRow(p[i], y, combo) ELSE p[i]],
                      y + 1)

\* mutant: the empty candidate set is reported with the optimizer's status
NoCandidatePlanAsInfeasible(p) == SetStatus(p, "INFEASIBLE_CONSTRAINT_SET")

\* line 650: no GO or CONDITIONAL city
NoCandidatePlan(p) == SetStatus(p, "NO_FEASIBLE_GO_OR_CONDITIONAL_CITIES")

\* mutant: the bundles chosen before the infeasible year are written back
InfeasiblePlanPartial(p) == SetStatus(WriteBack(p, 1), "INFEASIBLE_CONSTRAINT_SET")

\* line 777: the optimizer found no feasible schedule
InfeasiblePlan(p) == SetStatus(p, "INFEASIBLE_CONSTRAINT_SET")

\* ---------------------------------------------------------------------- inputs
\* city_recommendation_df is sorted by descending portfolio objective
CityInputs ==
    {cs \in [1..NumCities -> CityProfiles] :
        \A i \in 1..(NumCities - 1) : cs[i].objective >= cs[i + 1].objective}

ConfigOf(ys, reserve, min_distinct) ==
    [budgets |-> [y \in DOMAIN ys |-> ys[y].budget],
     max_new |-> [y \in DOMAIN ys |-> ys[y].max_new],
     caps |-> [y \in DOMAIN ys |-> ys[y].cap],
     reserve |-> reserve,
     min_distinct |-> min_distinct]

ConfigInputs ==
    {ConfigOf(ys, r, m) :
        ys \in UNION {[1..n -> YearProfiles] : n \in 0..MaxYears},
        r \in ReserveValues, m \in MinDistinctValues}

Init ==
    /\ cities \in CityInputs
    /\ cfg \in ConfigInputs
    /\ pc = "start"
    /\ df_index_arr = <<>>
    /\ year = 0
    /\ launched_mask = {}
    /\ state_mask_first3 = {}
    /\ schedule = <<>>
    /\ optimization_feasible = TRUE
    /\ plan = [i \in 1..NumCities |-> DefaultRow]
    /\ call = NoCall
    /\ result = NoCall
    /\ LoaderIdle

\* --------------------------------------------------------------------- actions
\* lines 648-721: candidate filter, loop initialisation (and, without
\* candidates, lines 801-807)
SelectCandidates ==
    /\ pc = "start"
    /\ df_index_arr' = CandidateRows
    /\ year' = 1
    /\ IF CandidateRows = <<>>
       THEN /\ plan' = MapLaunchWave(NoCandidatePlan(plan))
            /\ pc' = "done"
       ELSE /\ pc' = IF planning_years >= 1 THEN "greedy" ELSE "postscan"
            /\ UNCHANGED plan
    /\ UNCHANGED <<cities, cfg, launched_mask, state_mask_first3, schedule,
                   optimization_feasible, call, result, loader_vars>>

\* lines 723-771: one iteration of the greedy loop
GreedyYear ==
    /\ pc = "greedy"
    /\ \E bundles \in {yearly_bundles(year)} :
         \E best \in {ScanBundles(bundles, 1, 0, year)} :
            IF best = 0
            THEN /\ optimization_feasible' = FALSE
                 /\ pc' = "postscan"
                 /\ UNCHANGED <<schedule, launched_mask, state_mask_first3, year>>
            ELSE \E best_bundle \in {bundles[best]} :
                    /\ schedule' = Append(schedule, best_bundle.ids)
                    /\ launched_mask' = launched_mask \cup best_bundle.mask
                    /\ state_mask_first3' =
                          IF year <= first3_years
                          THEN state_mask_first3 \cup best_bundle.state_mask
                          ELSE state_mask_first3
                    /\ year' = year + 1
                    /\ pc' = IF year < planning_years THEN "greedy" ELSE "postscan"
                    /\ UNCHANGED optimization_feasible
    /\ UNCHANGED <<cities, cfg, df_index_arr, plan, call, result, loader_vars>>

\* lines 773-807: post-scan diversification check, status or write-back,
\* launch wave labels
PostScan ==
    /\ pc = "postscan"
    /\ LET feasible ==
              /\ optimization_feasible
              /\ ~(first3_years >= 1 /\ Cardinality(state_mask_first3) < required_states)
       IN /\ optimization_feasible' = feasible
          /\ plan' = MapLaunchWave(IF ~feasible
                                   THEN InfeasiblePlan(plan)
                                   ELSE WriteBack(plan, 1))
    /\ pc' = "done"
    /\ UNCHANGED <<cities, cfg, df_index_arr, year, launched_mask,
                   state_mask_first3, schedule, call, result,
                   loader_vars>>

Next == SelectCandidates \/ GreedyYear \/ PostScan

Spec == Init /\ [][Next]_vars

\* ==================================================================== claims
Rows == DOMAIN plan
Done == pc = "done"

\* cities the plan assigns to rollout year y
AssignedTo(y) == {i \in Rows : plan[i].rollout_year = y}

capex_of == [i \in DOMAIN cities |-> cities[i].capex]
loss_of == [i \in DOMAIN cities |-> cities[i].loss]

\* some city carries the success status
PlanReportsSuccess == \E i \in Rows : plan[i].optimization_status = "HARD_CONSTRAINED_SELECTION"

RowUnassigned(i) ==
    /\ plan[i].rollout_year = UNASSIGNED_YEAR
    /\ plan[i].launch_wave = "Hold"
    /\ plan[i].selected_by_optimizer = FALSE

\* C1: in every produced plan the capex of the cities assigned to a rollout
\* year sums to at most that year's usable budget,
\* budget[y] * max(0, 1 - reserve_ratio)
C1_CapexWithinUsableBudget ==
    Done => \A y \in 1..planning_years :
                SumOver(AssignedTo(y), capex_of) * 100 <= UsableBudget100(y)

\* C1 witness: capex [50M, 60M, 40M], usable year-1 budget 90M, max_new 2, and
\* year 1 received two cities (the only feasible pair, city1 and city3)
C1_Witness ==
    /\ Done
    /\ [i \in DOMAIN cities |-> cities[i].capex] = <<5, 6, 4>>
    /\ planning_years >= 1
    /\ UsableBudget100(1) = 900 /\ cfg.max_new[1] = 2
    /\ AssignedTo(1) = {1, 3}

\* C2: in every produced plan the mean loss probability of the cities assigned
\* to a rollout year is at most that year's risk cap
C2_MeanLossWithinRiskCap ==
    Done => \A y \in 1..planning_years :
                AssignedTo(y) # {} =>
                    SumOver(AssignedTo(y), loss_of) <= cfg.caps[y] * Cardinality(AssignedTo(y))

\* C2 witness: a year holds a city whose own loss probability exceeds the cap,
\* averaged down by a second city
C2_Witness ==
    /\ Done
    /\ \E y \in 1..planning_years :
          /\ Cardinality(AssignedTo(y)) = 2
          /\ \E i \in AssignedTo(y) : cities[i].loss > cfg.caps[y]

\* C3: after any number of greedy years the selected bundles are pairwise
\* disjoint, no bundle repeats a city, and the plan assigns as many cities as
\* the schedule holds
C3_BundlesDisjoint ==
    /\ \A y1, y2 \in DOMAIN schedule :
          y1 # y2 => Range(schedule[y1]) \cap Range(schedule[y2]) = {}
    /\ \A y \in DOMAIN schedule : Cardinality(Range(schedule[y])) = Len(schedule[y])
    /\ launched_mask = UNION {Range(schedule[y]) : y \in DOMAIN schedule}
    /\ (Done /\ optimization_feasible) =>
          \A y \in DOMAIN schedule :
              AssignedTo(y) = {df_index_arr[cid] : cid \in Range(schedule[y])}

\* C3 witness: three years each launched a city
C3_Witness ==
    /\ Done
    /\ Len(schedule) >= 3
    /\ \A y \in 1..3 : AssignedTo(y) # {}

\* C4: a NO-GO city is never a candidate and keeps rollout_year = -1,
\* launch_wave = Hold and selected_by_optimizer = False
C4_NoGoNeverAssigned ==
    \A i \in Rows :
        board_signal(i) = "NO-GO" => i \notin Range(df_index_arr) /\ RowUnassigned(i)

\* C4 witness: a successful plan over a table that holds a NO-GO city
C4_Witness ==
    /\ Done
    /\ PlanReportsSuccess
    /\ \E i \in Rows : board_signal(i) = "NO-GO"

\* states among the cities assigned inside the diversification window
WindowStates ==
    {cities[i].state : i \in {j \in Rows : plan[j].rollout_year \in 1..first3_years}}

\* C5: a plan that reports success has at least
\* min_distinct_states_first3_years distinct states inside the window
C5_SuccessMeetsConfiguredMinimum ==
    (Done /\ PlanReportsSuccess) => Cardinality(WindowStates) >= cfg.min_distinct

\* C6: a requirement of 3 states in a 3-year window with only 2 states among
\* the candidates is reported infeasible, with no city assigned
C6_TwoStatesOfThreeInfeasible ==
    (/\ Done
     /\ cfg.min_distinct = 3
     /\ first3_years = 3
     /\ Cardinality(state_list) = 2)
    => \A i \in Rows :
          /\ plan[i].optimization_status = "INFEASIBLE_CONSTRAINT_SET"
          /\ RowUnassigned(i)

\* C7: an infeasible optimizer stops at the failing year, writes nothing back
\* and returns every row unassigned with status INFEASIBLE_CONSTRAINT_SET
C7_InfeasiblePlanUnassigned ==
    /\ ~optimization_feasible =>
          /\ pc \in {"postscan", "done"}
          /\ Len(schedule) < planning_years
          /\ year = Len(schedule) + 1
    /\ (Done /\ ~optimization_feasible) =>
          \A i \in Rows :
              plan[i] = [DefaultRow EXCEPT !.optimization_status = "INFEASIBLE_CONSTRAINT_SET"]

\* C7 witness: an earlier year had chosen a bundle, a later year was never
\* scheduled, and the returned plan is infeasible
C7_Witness ==
    /\ Done
    /\ ~optimization_feasible
    /\ \E y \in DOMAIN schedule : schedule[y] # <<>>
    /\ Len(schedule) + 1 < planning_years

\* C8: every row carries NO_FEASIBLE_GO_OR_CONDITIONAL_CITIES exactly when
\* there is no candidate and INFEASIBLE_CONSTRAINT_SET exactly when the
\* optimizer found no feasible schedule, so the two never share a status
C8_InfeasibilityStatusesDistinct ==
    Done => \A i \in Rows :
                /\ plan[i].optimization_status = "NO_FEASIBLE_GO_OR_CONDITIONAL_CITIES"
                      <=> df_index_arr = <<>>
                /\ plan[i].optimization_status = "INFEASIBLE_CONSTRAINT_SET"
                      <=> ~optimization_feasible

\* C8 witness: a plan without any candidate
C8_Witness ==
    /\ Done
    /\ df_index_arr = <<>>
    /\ \A i \in Rows : plan[i].optimization_status = "NO_FEASIBLE_GO_OR_CONDITIONAL_CITIES"

\* C9: no rollout year receives more cities than max_new_cities_per_year
C9_LaunchCountWithinLimit ==
    /\ \A y \in DOMAIN schedule : Len(schedule[y]) <= cfg.max_new[y]
    /\ Done => \A y \in 1..planning_years : Cardinality(AssignedTo(y)) <= cfg.max_new[y]

\* C9 witness: a year with limit 1 received a city although two more
\* candidates were free
C9_Witness ==
    /\ Done
    /\ \E y \in 1..planning_years :
          /\ cfg.max_new[y] = 1
          /\ Cardinality(AssignedTo(y)) = 1
          /\ Len(df_index_arr) - Cardinality(UNION {AssignedTo(z) : z \in 1..y}) >= 2

\* ======================================== best strategy per city (lines 594-602)
\* bounds of the recommendation table inputs
MaxStrategies == 2
CityNames == {"Berlin", "Hamburg", "Koeln"}
ObjectiveSeeds == 0..2

\* the other main variables while one of the other functions is called
PortfolioIdle ==
    /\ cities = <<>>
    /\ cfg = ConfigOf(<<>>, 0, 0)
    /\ pc = "idle"
    /\ df_index_arr = <<>>
    /\ year = 0
    /\ launched_mask = {}
    /\ state_mask_first3 = {}
    /\ schedule = <<>>
    /\ optimization_feasible = TRUE
    /\ plan = <<>>

portfolio_vars == <<cities, cfg, pc, df_index_arr, year, launched_mask,
                    state_mask_first3, schedule, optimization_feasible, plan>>

\* lines 496-572: one row per configured city and strategy, city-major;
\* objective[i][s] is the portfolio objective of configured city i under strategy s
CityStrategyRows(city_inputs, n_strategies, objective) ==
    [k \in 1..(Len(city_inputs) * n_strategies) |->
        LET i == ((k - 1) \div n_strategies) + 1
            s == ((k - 1) % n_strategies) + 1
        IN [city |-> city_inputs[i], strategy |-> s,
            portfolio_objective_eur |-> objective[i][s]]]

\* sort_values("portfolio_objective_eur", ascending=False); ties keep their order
RankByObjective(s, i) ==
    Cardinality({j \in DOMAIN s :
        \/ s[j].portfolio_objective_eur > s[i].portfolio_objective_eur
        \/ s[j].portfolio_objective_eur = s[i].portfolio_objective_eur /\ j < i}) + 1

SortByObjective(s) ==
    [p \in DOMAIN s |-> s[CHOOSE i \in DOMAIN s : RankByObjective(s, i) = p]]

\* the rows of s at the positions idx, in order
RowsAt(s, idx) ==
    [p \in 1..Cardinality(idx) |->
        s[CHOOSE i \in idx : Cardinality({j \in idx : j < i}) = p - 1]]

\* mutant: no grouping, every city-strategy row is kept
HeadOfEachRow(s) == s

\* groupby("city").head(1): the first row of every city name
HeadPerCity(s) ==
    RowsAt(s, {i \in DOMAIN s : \A j \in 1..(i - 1) : s[j].city # s[i].city})

\* lines 594-602 (and the early return of lines 460-463)
CityRecommendation(city_inputs, n_strategies, objective) ==
    IF city_inputs = <<>>
    THEN <<>>
    ELSE SortByObjective(
            HeadPerCity(
                SortByObjective(CityStrategyRows(city_inputs, n_strategies, objective))))

RecommendationCalls ==
    {[fn |-> "build_city_portfolio", city_inputs |-> names, n_strategies |-> n,
      objective |-> [i \in DOMAIN names |-> [s \in 1..n |-> ((a * i) + (b * s)) % 3]]] :
        names \in UNION {[1..k -> CityNames] : k \in 0..NumCities},
        n \in 1..MaxStrategies, a \in ObjectiveSeeds, b \in ObjectiveSeeds}

InitRecommendation ==
    /\ PortfolioIdle
    /\ LoaderIdle
    /\ call \in RecommendationCalls
    /\ result = NoCall

RecommendCities ==
    /\ call.fn = "build_city_portfolio"
    /\ result = NoCall
    /\ result' = [fn |-> call.fn,
                  city_recommendation_df |->
                      CityRecommendation(call.city_inputs, call.n_strategies, call.objective)]
    /\ UNCHANGED <<call, portfolio_vars, loader_vars>>

RecommendationSpec == InitRecommendation /\ [][RecommendCities]_vars

Recommended == result # NoCall /\ result.fn = "build_city_portfolio"

\* C11: the recommendation table (of which the plan table is a copy) holds
\* exactly one row per city: no city name twice, every configured city once,
\* whatever the number of strategies
C11_OneRowPerCity ==
    Recommended =>
        LET df == result.city_recommendation_df
        IN /\ \A i, j \in DOMAIN df : i # j => df[i].city # df[j].city
           /\ {df[i].city : i \in DOMAIN df} = Range(call.city_inputs)

\* C11 witness: two strategies, at least two distinct cities, and the best
\* row of some city is not its first strategy
C11_Witness ==
    /\ Recommended
    /\ call.n_strategies >= 2
    /\ Len(result.city_recommendation_df) >= 2
    /\ \E i \in DOMAIN result.city_recommendation_df :
          result.city_recommendation_df[i].strategy = 2

\* ================================================= launch_wave (lines 801-807)
\* C12: in every returned plan a row's launch_wave is fixed by its
\* rollout_year: 1 gives Wave 1 Pilot, 2 and 3 give Wave 2 Scale, any later
\* year gives Wave 3 Option, -1 gives Hold
C12_LaunchWaveFollowsYear ==
    Done => \A i \in Rows :
                /\ plan[i].rollout_year = 1 => plan[i].launch_wave = "Wave 1 Pilot"
                /\ plan[i].rollout_year \in {2, 3} => plan[i].launch_wave = "Wave 2 Scale"
                /\ plan[i].rollout_year > 3 => plan[i].launch_wave = "Wave 3 Option"
                /\ plan[i].rollout_year = -1 => plan[i].launch_wave = "Hold"
                /\ plan[i].launch_wave \in
                      {"Wave 1 Pilot", "Wave 2 Scale", "Wave 3 Option", "Hold"}

\* C12 witness: one plan with a pilot city, a scale city and a city launched
\* after year 3
C12_Witness ==
    /\ Done
    /\ \E i, j, k \in Rows :
          /\ plan[i].rollout_year = 1
          /\ plan[j].rollout_year \in {2, 3}
          /\ plan[k].rollout_year > 3

\* ================================== planning horizon (lines 468-490, 723, 779-793)
\* longest constraint list of the horizon configurations
MaxHorizon == 6

HorizonLengths == {0, MaxHorizon - 1, MaxHorizon}

\* constraint lists of independent lengths; the risk cap admits a city with
\* loss probability 0.50 only in the last year of its list
HorizonConfigs ==
    {[budgets |-> [y \in 1..nb |-> 15],
      max_new |-> [y \in 1..nm |-> 1],
      caps |-> [y \in 1..nc |-> IF y = nc THEN 50 ELSE 40],
      reserve |-> 10,
      min_distinct |-> m] :
        nb \in HorizonLengths, nm \in HorizonLengths, nc \in HorizonLengths,
        m \in {1, 2}}

HorizonCities == {cs \in CityInputs : cs[1].objective = 6}

InitHorizon ==
    /\ cities \in HorizonCities
    /\ cfg \in HorizonConfigs
    /\ pc = "start"
    /\ df_index_arr = <<>>
    /\ year = 0
    /\ launched_mask = {}
    /\ state_mask_first3 = {}
    /\ schedule = <<>>
    /\ optimization_feasible = TRUE
    /\ plan = [i \in 1..NumCities |-> DefaultRow]
    /\ call = NoCall
    /\ result = NoCall
    /\ LoaderIdle

HorizonSpec == InitHorizon /\ [][Next]_vars

\* C13: every rollout_year of a produced plan is one of -1, 1, 2, 3, 4, 5,
\* whatever the configured budget, launch-limit and risk-cap lists
C13_RolloutYearInGateRange ==
    Done => \A i \in Rows : plan[i].rollout_year \in {-1, 1, 2, 3, 4, 5}

\* ============================== build_decision_matrix (lines 314-354), one strategy
\* Probabilities in percent; a weight and a weighted statistic are exact
\* fractions [num, den].
ScenarioNames == <<"base_case", "downside_stress", "upside_recovery">>
ProbabilityValues == {0, 30, 50}
STAT_COLUMNS ==
    <<"mean_contribution_eur", "std_contribution_eur", "prob_loss",
      "cvar5_contribution_eur", "prob_meet_hurdle">>

\* summary rows a scenario can contribute (contributions in 100k EUR,
\* probabilities in percent)
SummaryProfiles ==
    {[mean_contribution_eur |-> 30, std_contribution_eur |-> 4, prob_loss |-> 10,
      cvar5_contribution_eur |-> 12, prob_meet_hurdle |-> 60],
     [mean_contribution_eur |-> -8, std_contribution_eur |-> 9, prob_loss |-> 70,
      cvar5_contribution_eur |-> -25, prob_meet_hurdle |-> 0]}

\* mutant: a scenario without an entry counts with probability 1.0
ScenarioProbabilityDefaultOne(scenario_probs, s) ==
    IF s \in DOMAIN scenario_probs THEN scenario_probs[s] ELSE 100

\* line 320: scenario_probs.get(s, 0.0)
ScenarioProbability(scenario_probs, s) ==
    IF s \in DOMAIN scenario_probs THEN scenario_probs[s] ELSE 0

\* mutant: the probabilities are used as they are
TotalProbUnnormalised(probs) == 100

\* line 321: float(sum) or 1.0
TotalProb(probs) == IF SumSeq(probs) = 0 THEN 100 ELSE SumSeq(probs)

\* lines 324-328: (column * w).sum()
WeightedColumn(group, probs, col) ==
    [num |-> SumSeq([i \in DOMAIN group |-> group[i][col] * probs[i]]),
     den |-> TotalProb(probs)]

\* lines 318-351 for the rows of one strategy
DecisionRow(group, scenario_probs) ==
    LET probs == [i \in DOMAIN group |-> ScenarioProbability(scenario_probs, group[i].scenario)]
    IN IF \A i \in DOMAIN group : group[i].scenario # "base_case"
       THEN [raised |-> "IndexError"]
       ELSE [raised |-> "none",
             w |-> [i \in DOMAIN group |-> [num |-> probs[i], den |-> TotalProb(probs)]],
             weighted |-> [c \in Range(STAT_COLUMNS) |-> WeightedColumn(group, probs, c)],
             base_case_contribution_eur |->
                 (CHOOSE r \in Range(group) : r.scenario = "base_case").mean_contribution_eur]

\* the scenarios of one strategy, in the order of the summary table
ScenarioGroups ==
    {SelectSeq(ScenarioNames, LAMBDA s : s \in keep) : keep \in (SUBSET Range(ScenarioNames)) \ {{}}}

DecisionCalls ==
    {[fn |-> "build_decision_matrix",
      group |-> [i \in DOMAIN names |-> [scenario |-> names[i]] @@ stats[i]],
      scenario_probs |-> probs] :
        names \in ScenarioGroups,
        stats \in [1..3 -> SummaryProfiles],
        probs \in UNION {[mapped -> ProbabilityValues] : mapped \in SUBSET Range(ScenarioNames)}}

InitDecision ==
    /\ PortfolioIdle
    /\ LoaderIdle
    /\ call \in DecisionCalls
    /\ result = NoCall

BuildDecisionMatrix ==
    /\ call.fn = "build_decision_matrix"
    /\ result = NoCall
    /\ result' = [fn |-> call.fn] @@ DecisionRow(call.group, call.scenario_probs)
    /\ UNCHANGED <<call, portfolio_vars, loader_vars>>

DecisionSpec == InitDecision /\ [][BuildDecisionMatrix]_vars

DecisionReturned ==
    result # NoCall /\ result.fn = "build_decision_matrix" /\ result.raised = "none"

\* the configured probability of the i-th scenario of the group, with the
\* given default for a scenario that has no entry
ConfiguredProbability(i, default) ==
    IF call.group[i].scenario \in DOMAIN call.scenario_probs
    THEN call.scenario_probs[call.group[i].scenario]
    ELSE default

ConfiguredSum(default) ==
    SumSeq([i \in DOMAIN call.group |-> ConfiguredProbability(i, default)])

\* the weights are the probabilities (with the given default) over their sum,
\* over 1 when the sum is zero, and sum to 1 unless that fallback is used
WeightsNormalised(default) ==
    DecisionReturned =>
        /\ \A i \in DOMAIN call.group :
              /\ result.w[i].num = ConfiguredProbability(i, default)
              /\ result.w[i].den = IF ConfiguredSum(default) = 0 THEN 100
                                   ELSE ConfiguredSum(default)
        /\ ConfiguredSum(default) # 0 =>
              SumSeq([i \in DOMAIN call.group |-> result.w[i].num]) = result.w[1].den

\* C14 as stated: a scenario without an entry in scenario_probabilities gets
\* default weight 1
C14_WeightsNormalisedDefaultOne == WeightsNormalised(100)

\* C14 amended: a scenario without an entry gets weight 0
C14_WeightsNormalisedDefaultZero == WeightsNormalised(0)

\* C14 witness: a strategy with a mapped and an unmapped scenario and a
\* non-zero probability sum
C14_Witness ==
    /\ DecisionReturned
    /\ \E i, j \in DOMAIN call.group :
          /\ call.group[i].scenario \notin DOMAIN call.scenario_probs
          /\ call.group[j].scenario \in DOMAIN call.scenario_probs
    /\ ConfiguredSum(0) = 80

\* all configured probability of the strategy lies on its k-th scenario
ConcentratedOn(k) ==
    /\ ConfiguredProbability(k, 0) > 0
    /\ \A i \in DOMAIN call.group : i # k => ConfiguredProbability(i, 0) = 0

\* C15: when all scenario probability is concentrated on a single scenario,
\* every weighted statistic of the strategy (mean contribution, std, loss
\* probability, CVaR5, hurdle probability) equals that scenario's statistic
C15_ConcentratedWeightsGiveRawStatistics ==
    DecisionReturned =>
        \A k \in DOMAIN call.group :
            ConcentratedOn(k) =>
                \A c \in Range(STAT_COLUMNS) :
                    result.weighted[c].num = call.group[k][c] * result.weighted[c].den

\* C15 witness: probability 0.5 on base_case alone, the other two scenarios
\* present with different statistics
C15_Witness ==
    /\ DecisionReturned
    /\ Len(call.group) = 3
    /\ ConcentratedOn(1)
    /\ call.scenario_probs["base_case"] = 50
    /\ call.group[2].mean_contribution_eur # call.group[1].mean_contribution_eur
    /\ result.weighted["mean_contribution_eur"].den = 50

\* ============================ build_valuation_model (lines 357-446), one strategy
\* Rates are integers: wacc and terminal_growth in halves (2 = 100 percent),
\* strategy growth and the maintenance share in percent; money in 1M EUR.
\* Yearly cash flows are kept as integers scaled by FcfScale(horizon), their
\* discounted values by FcfScale(horizon) * (1 + wacc)^horizon; terminal
\* value and NPV are exact fractions [num, den].
ValuationYears == 2
WaccValues == {0, 2}
TerminalGrowthValues == {-1, 0, 2, 3}
ContributionValues == {-2, 3}
CapexPerNewValues == {1, 4}
MaintenanceValues == {0, 50}
RealGrowthValues == {0, 10}
BaseAdoptionValues == {0, 20}

RECURSIVE Pow(_, _)
Pow(b, e) == IF e = 0 THEN 1 ELSE b * Pow(b, e - 1)

Clip(x, lo, hi) == Max(lo, Min(x, hi))

\* lines 381-382, in percent
StrategyGrowth(real_growth, base_adoption) ==
    Clip(real_growth + ((base_adoption - 20) \div 10), -2, 9)

FcfScale(horizon) == Pow(100, horizon - 1) * 100

\* 1 + wacc, wacc in halves restricted to whole multiples of 100 percent
DiscountBase(wacc) == (2 + wacc) \div 2

\* line 391
CumulativeWh(rollout, y) == IF y - 1 < Len(rollout) THEN rollout[y] ELSE rollout[Len(rollout)]

\* lines 392-399: free cash flow of year y, scaled by FcfScale(horizon)
Fcf(c, y) ==
    LET rollout == SubSeq(c.warehouses_cumulative_by_year, 1,
                          Min(c.horizon, Len(c.warehouses_cumulative_by_year)))
        cumulative_wh == CumulativeWh(rollout, y)
        prev_wh == IF y = 1 THEN 0 ELSE CumulativeWh(rollout, y - 1)
        new_wh == cumulative_wh - prev_wh
        gross_contrib == c.weighted_contrib * cumulative_wh
                            * Pow(100 + StrategyGrowth(c.real_growth, c.base_adoption), y - 1)
                            * Pow(100, c.horizon - y)
        maintenance_capex == Max(0, gross_contrib) * c.maint_pct
        growth_capex == new_wh * c.capex_per_new
    IN (gross_contrib * 100) - maintenance_capex - (growth_capex * FcfScale(c.horizon))

\* lines 401-403: discounted cash flow of year y, scaled by
\* FcfScale(horizon) * DiscountBase(wacc)^horizon
DiscountedFcf(c, y) == Fcf(c, y) * Pow(DiscountBase(c.wacc), c.horizon - y)

\* lines 384-409: the loop over the years; payback_year 0 is None
RECURSIVE PaybackLoop(_, _, _, _)
PaybackLoop(c, y, undiscounted_cum, payback_year) ==
    IF y > c.horizon THEN payback_year
    ELSE LET cum == undiscounted_cum + Fcf(c, y)
         IN PaybackLoop(c, y + 1, cum,
                        IF payback_year = 0 /\ cum >= 0 THEN y ELSE payback_year)

\* mutant: the first year from which the cumulative cash flow stays non-negative
PaybackYearLasting(c) ==
    LET lasting == {y \in 1..c.horizon :
                        \A z \in y..c.horizon : SumSeq([k \in 1..z |-> Fcf(c, k)]) >= 0}
    IN IF lasting = {} THEN -1 ELSE CHOOSE y \in lasting : \A z \in lasting : y <= z

\* line 439: payback_year if payback_year is not None else -1
PaybackYear(c) ==
    LET payback_year == PaybackLoop(c, 1, 0, 0)
    IN IF payback_year # 0 THEN payback_year ELSE -1

\* mutant: the Gordon formula is applied whenever the final cash flow is positive
TerminalValueAppliesIfPositive(c) == Fcf(c, c.horizon) > 0

\* line 429
TerminalValueApplies(c) == Fcf(c, c.horizon) > 0 /\ c.wacc > c.terminal_growth

\* lines 427-430, scaled by FcfScale(horizon)
TerminalValue(c) ==
    IF TerminalValueApplies(c)
    THEN [num |-> Fcf(c, c.horizon) * (2 + c.terminal_growth),
          den |-> c.wacc - c.terminal_growth]
    ELSE [num |-> 0, den |-> 1]

\* lines 373-442 for one strategy
ValuationRow(c) ==
    IF c.horizon = 0 \/ c.warehouses_cumulative_by_year = <<>>
    THEN [raised |-> "IndexError"]
    ELSE LET tv == TerminalValue(c)
             growth == Pow(DiscountBase(c.wacc), c.horizon)
             discounted_fcfs == [y \in 1..c.horizon |-> DiscountedFcf(c, y)]
         IN [raised |-> "none",
             free_cash_flow_eur |-> [y \in 1..c.horizon |-> Fcf(c, y)],
             discounted_fcf_eur |-> discounted_fcfs,
             terminal_value |-> tv,
             terminal_value_discounted_eur |-> [num |-> tv.num, den |-> tv.den * growth],
             npv_5y_eur |-> [num |-> (SumSeq(discounted_fcfs) * tv.den) + tv.num,
                             den |-> tv.den * growth],
             payback_year |-> PaybackYear(c)]

ValuationCalls ==
    [fn : {"build_valuation_model"},
     horizon : 0..ValuationYears,
     warehouses_cumulative_by_year : UNION {[1..n -> 0..2] : n \in 0..ValuationYears},
     wacc : WaccValues,
     terminal_growth : TerminalGrowthValues,
     weighted_contrib : ContributionValues,
     capex_per_new : CapexPerNewValues,
     maint_pct : MaintenanceValues,
     real_growth : RealGrowthValues,
     base_adoption : BaseAdoptionValues]

InitValuation ==
    /\ PortfolioIdle
    /\ LoaderIdle
    /\ call \in ValuationCalls
    /\ result = NoCall

BuildValuationModel ==
    /\ call.fn = "build_valuation_model"
    /\ result = NoCall
    /\ result' = [fn |-> call.fn] @@ ValuationRow(call)
    /\ UNCHANGED <<call, portfolio_vars, loader_vars>>

ValuationSpec == InitValuation /\ [][BuildValuationModel]_vars

ValuationReturned ==
    result # NoCall /\ result.fn = "build_valuation_model" /\ result.raised = "none"

\* C16: whenever WACC <= terminal growth or the final-year free cash flow is
\* not positive, the terminal value is 0, terminal_value_discounted_eur is 0
\* and npv_5y_eur is the sum of the discounted yearly free cash flows
C16_NoTerminalValue ==
    (/\ ValuationReturned
     /\ \/ call.wacc <= call.terminal_growth
        \/ result.free_cash_flow_eur[call.horizon] <= 0)
    => /\ result.terminal_value.num = 0
       /\ result.terminal_value_discounted_eur.num = 0
       /\ result.terminal_value_discounted_eur.den # 0
       /\ result.npv_5y_eur.num * Pow(DiscountBase(call.wacc), call.horizon)
             = SumSeq(result.discounted_fcf_eur) * result.npv_5y_eur.den

\* C16 witness: a positive final cash flow with WACC equal to terminal growth
C16_Witness ==
    /\ ValuationReturned
    /\ call.horizon = ValuationYears
    /\ result.free_cash_flow_eur[call.horizon] > 0
    /\ call.wacc = 2 /\ call.terminal_growth = 2
    /\ result.npv_5y_eur.num # 0

\* ================================ city multiplier (lines 465, 495-572), city scoring
\* Households (of a city and addressable) in thousands, index attributes in
\* tenths; factors in percent, the multiplier an exact fraction [num, den].
REQUIRED_ATTRIBUTES ==
    {"city", "state", "lat", "lon", "households_k", "income_index", "brand_fit_index",
     "logistics_index", "competition_intensity", "regulatory_complexity",
     "savings_pressure_index"}

BerlinProfile ==
    [city |-> "Berlin", state |-> "Berlin", lat |-> 52, lon |-> 13, households_k |-> 300,
     income_index |-> 10, brand_fit_index |-> 9, logistics_index |-> 9,
     competition_intensity |-> 8, regulatory_complexity |-> 8, savings_pressure_index |-> 6]

WithoutAttribute(profile, a) == [k \in (DOMAIN profile) \ {a} |-> profile[k]]

\* configured city profiles: complete ones of several sizes, one with a
\* negative household count, two that lack an attribute
CityProfilePool ==
    {BerlinProfile,
     [BerlinProfile EXCEPT !.city = "Bremen", !.households_k = 20, !.income_index = 8,
                           !.brand_fit_index = 5],
     [BerlinProfile EXCEPT !.city = "Hamburg", !.households_k = 900, !.income_index = 12,
                           !.competition_intensity = 0, !.regulatory_complexity = 0,
                           !.savings_pressure_index = 0],
     [BerlinProfile EXCEPT !.city = "Leipzig", !.households_k = -50],
     WithoutAttribute([BerlinProfile EXCEPT !.city = "Munich"], "households_k"),
     WithoutAttribute([BerlinProfile EXCEPT !.city = "Cologne"], "state")}

AddressableValues == {100, 400}

\* lines 499-510: demand scale, affluence, brand, cost and savings factors,
\* clipped to [0.30, 5.0]
CityMultiplier(city, addressable_households) ==
    LET affluence_factor == 100 + ((35 * (city.income_index - 10)) \div 10)
        brand_factor == 100 + ((25 * (city.brand_fit_index - 5)) \div 10)
        cost_drag == 100 + (3 * (10 - city.logistics_index))
                         + ((45 * city.competition_intensity) \div 10)
                         + (2 * city.regulatory_complexity)
        savings_drag == 100 + ((15 * city.savings_pressure_index) \div 10)
        num == city.households_k * affluence_factor * brand_factor
        den == Max(1, addressable_households) * Max(2500, cost_drag * savings_drag)
    IN IF num * 10 < 3 * den THEN [num |-> 3, den |-> 10]
       ELSE IF num > 5 * den THEN [num |-> 5, den |-> 1]
       ELSE [num |-> num, den |-> den]

\* the attributes whose lookup city[...] raises KeyError (lines 498-508, 552-569)
MissingAttributes(city) == REQUIRED_ATTRIBUTES \ DOMAIN city

\* lines 495-572 with at least one strategy: one group of rows per city, or
\* the KeyError of the first profile that lacks an attribute
CityStrategyTable(city_inputs, addressable_households) ==
    IF \E i \in DOMAIN city_inputs : MissingAttributes(city_inputs[i]) # {}
    THEN [raised |-> "KeyError"]
    ELSE [raised |-> "none",
          rows |-> [i \in DOMAIN city_inputs |->
                       [city |-> city_inputs[i].city,
                        households_k |-> city_inputs[i].households_k,
                        city_multiplier |->
                            CityMultiplier(city_inputs[i], addressable_households)]]]

CityScoreCalls ==
    [fn : {"city_strategy_rows"},
     city_inputs : UNION {[1..n -> CityProfilePool] : n \in 1..NumCities},
     addressable_households : AddressableValues]

InitCityScore ==
    /\ PortfolioIdle
    /\ LoaderIdle
    /\ call \in CityScoreCalls
    /\ result = NoCall

ScoreCities ==
    /\ call.fn = "city_strategy_rows"
    /\ result = NoCall
    /\ result' = [fn |-> call.fn]
                    @@ CityStrategyTable(call.city_inputs, call.addressable_households)
    /\ UNCHANGED <<call, portfolio_vars, loader_vars>>

CityScoreSpec == InitCityScore /\ [][ScoreCities]_vars

CityScoreDone == result # NoCall /\ result.fn = "city_strategy_rows"

\* a city profile that lacks a required attribute or has a negative household count
StructurallyInvalid(city) ==
    \/ REQUIRED_ATTRIBUTES \ DOMAIN city # {}
    \/ city.households_k < 0

\* C17: a structurally invalid city profile makes build_city_portfolio abort;
\* no score or row is returned for such a city
C17_InvalidProfileAborts ==
    (/\ CityScoreDone
     /\ \E i \in DOMAIN call.city_inputs : StructurallyInvalid(call.city_inputs[i]))
    => result.raised # "none"

\* ==================================== evaluate_strategy (lines 121-228)
\* Household spend in 100 EUR, discounts, margin and competitor penalty in
\* percent, fees in EUR, latent utility in units of 1/220; every derived
\* quantity is an exact fraction [num, den] in lowest terms, [0, 0] standing
\* for NaN.
MaxHouseholds == 2

RECURSIVE Gcd(_, _)
Gcd(a, b) == IF b = 0 THEN a ELSE Gcd(b, a % b)

Abs(x) == IF x < 0 THEN -x ELSE x

Frac(n, d) ==
    IF d = 0 THEN [num |-> 0, den |-> 0]
    ELSE LET g == Gcd(Abs(n), Abs(d))
             s == IF d < 0 THEN -1 ELSE 1
         IN [num |-> (s * n) \div g, den |-> (s * d) \div g]

FMul(a, b) == Frac(a.num * b.num, a.den * b.den)
FSub(a, b) == Frac((a.num * b.den) - (b.num * a.den), a.den * b.den)
FAdd(a, b) == Frac((a.num * b.den) + (b.num * a.den), a.den * b.den)
FInt(n) == Frac(n, 1)

\* one household draw: spend, discount and latent-choice noise
HouseholdDraws ==
    {[spend |-> 1, discount |-> 5, noise |-> 0],
     [spend |-> 4, discount |-> 10, noise |-> 0],
     [spend |-> 4, discount |-> 15, noise |-> -40],
     [spend |-> 2, discount |-> 10, noise |-> 25]}

\* lines 141-142
EffectiveFee(c) == Max(0, c.membership_fee_eur - c.first_year_subsidy_eur)

\* lines 174-181: net benefit per household plus the terms common to all
\* households plus noise; probs > 0.5 exactly when the latent value is positive
Adopted(c) ==
    {i \in DOMAIN c.households :
        ((c.households[i].spend * c.households[i].discount) - EffectiveFee(c))
            + c.common_terms + c.households[i].noise > 0}

\* mean of a column over the household positions idx (NaN over no position)
MeanOver(c, idx, col) ==
    Frac(SumOver(idx, [i \in DOMAIN c.households |-> c.households[i][col]]), Cardinality(idx))

\* mutant: the adopters' mean discount without the fallback
AdoptedDiscountMeanNoFallback(c) == MeanOver(c, Adopted(c), "discount")

\* line 186
AdoptedDiscountMean(c) ==
    IF Adopted(c) # {} THEN MeanOver(c, Adopted(c), "discount")
    ELSE MeanOver(c, DOMAIN c.households, "discount")

\* line 185
AdoptedSpendMean(c) ==
    IF Adopted(c) # {} THEN MeanOver(c, Adopted(c), "spend") ELSE FInt(0)

\* lines 183-199 (money in 100 EUR, so fees and costs are divided by 100)
EvaluateStrategy(c) ==
    LET competitor_penalty == Clip(c.competitor_penalty, 0, 8)
        adoption_rate == Frac(Cardinality(Adopted(c)), Len(c.households))
        projected_member_households == FMul(adoption_rate, FInt(c.addressable_households))
        projected_member_spend ==
            FMul(FMul(projected_member_households, AdoptedSpendMean(c)),
                 Frac(100 - competitor_penalty, 100))
        membership_revenue == FMul(projected_member_households, Frac(EffectiveFee(c), 100))
        gross_profit_before_discount ==
            FMul(projected_member_spend, Frac(c.merchandise_gross_margin_percent, 100))
        discount_cost == FMul(projected_member_spend,
                              FMul(AdoptedDiscountMean(c), Frac(1, 100)))
        merchandise_contribution == FSub(gross_profit_before_discount, discount_cost)
    IN [adoption_rate |-> adoption_rate,
        adopted_spend_mean |-> AdoptedSpendMean(c),
        adopted_discount_mean |-> AdoptedDiscountMean(c),
        projected_member_households |-> projected_member_households,
        projected_member_spend_eur |-> projected_member_spend,
        membership_revenue_eur |-> membership_revenue,
        merchandise_contribution_eur |-> merchandise_contribution,
        total_contribution_eur |->
            FSub(FSub(FAdd(membership_revenue, merchandise_contribution),
                      FInt(c.labor_cost)),
                 FInt(c.annual_fixed_opex_eur))]

StrategyCalls ==
    [fn : {"evaluate_strategy"},
     households : UNION {[1..n -> HouseholdDraws] : n \in 1..MaxHouseholds},
     membership_fee_eur : {30, 65},
     first_year_subsidy_eur : {0, 35},
     common_terms : {-20, 10},
     competitor_penalty : {-1, 3, 12},
     addressable_households : {10},
     merchandise_gross_margin_percent : {12},
     labor_cost : {7},
     annual_fixed_opex_eur : {5}]

InitStrategy ==
    /\ PortfolioIdle
    /\ LoaderIdle
    /\ call \in StrategyCalls
    /\ result = NoCall

EvaluateStrategyCall ==
    /\ call.fn = "evaluate_strategy"
    /\ result = NoCall
    /\ result' = [fn |-> call.fn] @@ EvaluateStrategy(call)
    /\ UNCHANGED <<call, portfolio_vars, loader_vars>>

StrategySpec == InitStrategy /\ [][EvaluateStrategyCall]_vars

StrategyEvaluated == result # NoCall /\ result.fn = "evaluate_strategy"

IsZero(f) == f.num = 0 /\ f.den # 0

\* C18: when no household adopts, adoption_rate is 0, the adopters' mean
\* spend is 0, the discount used is the full-sample mean discount, membership
\* revenue and merchandise contribution are 0 and total contribution is
\* -(labor cost + fixed opex); no value is undefined
C18_ZeroAdoption ==
    (StrategyEvaluated /\ Adopted(call) = {}) =>
        /\ IsZero(result.adoption_rate)
        /\ IsZero(result.adopted_spend_mean)
        /\ result.adopted_discount_mean.den # 0
        /\ result.adopted_discount_mean.num * Len(call.households)
              = SumSeq([i \in DOMAIN call.households |-> call.households[i].discount])
                   * result.adopted_discount_mean.den
        /\ IsZero(result.membership_revenue_eur)
        /\ IsZero(result.merchandise_contribution_eur)
        /\ result.total_contribution_eur
              = [num |-> -(call.labor_cost + call.annual_fixed_opex_eur), den |-> 1]

\* C18 witness: two households with different discounts, neither adopts
C18_Witness ==
    /\ StrategyEvaluated
    /\ Adopted(call) = {}
    /\ Len(call.households) = 2
    /\ call.households[1].discount # call.households[2].discount
    /\ result.adopted_discount_mean.num > 0

\* ================================= compliance_engine.py: audit_green_claims
\* Strings are sequences of one-character strings.
MaxLabels == 2
UPPER_CASE ==
    <<"A", "B", "C", "D", "E", "F", "G", "H", "I", "J", "K", "L", "M", "N", "O", "P",
      "Q", "R", "S", "T", "U", "V", "W", "X", "Y", "Z">>
LOWER_CASE ==
    <<"a", "b", "c", "d", "e", "f", "g", "h", "i", "j", "k", "l", "m", "n", "o", "p",
      "q", "r", "s", "t", "u", "v", "w", "x", "y", "z">>
DIGITS == {"0", "1", "2", "3", "4", "5", "6", "7", "8", "9"}

\* str.lower() on one character
LowerChar(ch) ==
    IF \E i \in DOMAIN UPPER_CASE : UPPER_CASE[i] = ch
    THEN LOWER_CASE[CHOOSE i \in DOMAIN UPPER_CASE : UPPER_CASE[i] = ch]
    ELSE ch

LowerSeq(s) == [i \in DOMAIN s |-> LowerChar(s[i])]

\* sub in s
Contains(s, sub) ==
    \E i \in 0..(Len(s) - Len(sub)) : SubSeq(s, i + 1, i + Len(sub)) = sub

\* line 9
BANNED_GREEN_TERMS ==
    <<<<"c", "l", "i", "m", "a", "t", "e", " ", "n", "e", "u", "t", "r", "a", "l">>,
      <<"e", "c", "o", "-", "f", "r", "i", "e", "n", "d", "l", "y">>,
      <<"g", "r", "e", "e", "n">>>>

\* \w, \d and \s of the pattern
IsDigit(ch) == ch \in DIGITS
IsWord(ch) == IsDigit(ch) \/ ch = "_" \/ LowerChar(ch) \in Range(LOWER_CASE)
IsSpace(ch) == ch = " "

\* \b between positions p and p + 1 of s, position p holding a word character
BoundaryAfter(s, p) == p = Len(s) \/ ~IsWord(s[p + 1])
BoundaryBefore(s, p) == p = 1 \/ ~IsWord(s[p - 1])

AllDigits(s, from, to) == to <= Len(s) /\ \A p \in from..to : IsDigit(s[p])

\* line 10: \bISO\s?\d{3,5}(?:-\d+)?\b, ignoring case, somewhere in s
IsoCertPatternSearch(s) ==
    \E i \in 1..(Len(s) - 2) :
        /\ LowerSeq(SubSeq(s, i, i + 2)) = <<"i", "s", "o">>
        /\ BoundaryBefore(s, i)
        /\ \E sp \in {0, 1} :
              /\ sp = 1 => (i + 3 <= Len(s) /\ IsSpace(s[i + 3]))
              /\ \E d \in 3..5 :
                    LET last == i + 2 + sp + d
                    IN /\ AllDigits(s, i + 3 + sp, last)
                       /\ \/ BoundaryAfter(s, last)
                          \/ \E m \in 1..(Len(s) - last - 1) :
                                /\ s[last + 1] = "-"
                                /\ AllDigits(s, last + 2, last + 1 + m)
                                /\ BoundaryAfter(s, last + 1 + m)

\* mutant: the label is searched as it is written
LoweredAsWritten(label) == label

\* line 19
Lowered(label) == LowerSeq(label)

\* line 20
MatchedTerms(label) ==
    SelectSeq(BANNED_GREEN_TERMS, LAMBDA term : Contains(Lowered(label), term))

\* lines 19-46 for one label
AuditLabel(label) ==
    IF MatchedTerms(label) # <<>> /\ ~IsoCertPatternSearch(label)
    THEN [label |-> label, status |-> "VIOLATION", severity |-> "HIGH"]
    ELSE [label |-> label, status |-> "PASS", severity |-> "NONE"]

\* lines 17-47
audit_green_claims(product_label_list) ==
    [i \in DOMAIN product_label_list |-> AuditLabel(product_label_list[i])]

\* product labels
\* "Climate Neutral cleaner"
ClimateNeutralCleaner ==
    <<"C", "l", "i", "m", "a", "t", "e", " ", "N", "e", "u", "t", "r", "a", "l", " ",
      "c", "l", "e", "a", "n", "e", "r">>
\* "Eco-friendly soap ISO 14067"
EcoFriendlyIsoCertified ==
    <<"E", "c", "o", "-", "f", "r", "i", "e", "n", "d", "l", "y", " ", "s", "o", "a",
      "p", " ", "I", "S", "O", " ", "1", "4", "0", "6", "7">>
\* "GREEN tea"
UpperCaseGreen ==
    <<"G", "R", "E", "E", "N", " ", "t", "e", "a">>
\* "Evergreen ISO 12"
EvergreenShortIso ==
    <<"E", "v", "e", "r", "g", "r", "e", "e", "n", " ", "I", "S", "O", " ", "1", "2">>
\* "Plain soap"
PlainSoap ==
    <<"P", "l", "a", "i", "n", " ", "s", "o", "a", "p">>
\* "green iso9001-2"
GreenLowerIsoWithPart ==
    <<"g", "r", "e", "e", "n", " ", "i", "s", "o", "9", "0", "0", "1", "-", "2">>
\* "Green ISO 123456"
GreenIsoSixDigits ==
    <<"G", "r", "e", "e", "n", " ", "I", "S", "O", " ", "1", "2", "3", "4", "5", "6">>
\* "Green XISO 9001"
GreenIsoInsideWord ==
    <<"G", "r", "e", "e", "n", " ", "X", "I", "S", "O", " ", "9", "0", "0", "1">>
\* "ISO 9001 pump"
IsoWithoutClaim ==
    <<"I", "S", "O", " ", "9", "0", "0", "1", " ", "p", "u", "m", "p">>
\* "Green ISO 9001-"
GreenIsoDanglingPart ==
    <<"G", "r", "e", "e", "n", " ", "I", "S", "O", " ", "9", "0", "0", "1", "-">>

ProductLabels ==
    {ClimateNeutralCleaner,
     EcoFriendlyIsoCertified,
     UpperCaseGreen,
     EvergreenShortIso,
     PlainSoap,
     GreenLowerIsoWithPart,
     GreenIsoSixDigits,
     GreenIsoInsideWord,
     IsoWithoutClaim,
     GreenIsoDanglingPart}
GreenClaimCalls ==
    [fn : {"audit_green_claims"},
     product_label_list : UNION {[1..n -> ProductLabels] : n \in 0..MaxLabels}]

AuditGreenClaims ==
    /\ call.fn = "audit_green_claims"
    /\ result = NoCall
    /\ result' = [fn |-> call.fn, results |-> audit_green_claims(call.product_label_list)]
    /\ UNCHANGED <<call, portfolio_vars, loader_vars>>
\* ========================= compliance_engine.py: check_workforce_scheduling
MaxRecords == 2
NOTICE_PERIOD_MIN_DAYS == 4

\* line 70
INDIVIDUAL_PERFORMANCE_TRACKING ==
    <<"i", "n", "d", "i", "v", "i", "d", "u", "a", "l", "_", "p", "e", "r", "f", "o",
      "r", "m", "a", "n", "c", "e", "_", "t", "r", "a", "c", "k", "i", "n", "g">>

\* monitoring_type values of the records
\* "Individual_Performance_Tracking"
MixedCaseTracking ==
    <<"I", "n", "d", "i", "v", "i", "d", "u", "a", "l", "_", "P", "e", "r", "f", "o",
      "r", "m", "a", "n", "c", "e", "_", "T", "r", "a", "c", "k", "i", "n", "g">>
\* " individual_performance_tracking "
PaddedTracking ==
    <<" ", "i", "n", "d", "i", "v", "i", "d", "u", "a", "l", "_", "p", "e", "r", "f",
      "o", "r", "m", "a", "n", "c", "e", "_", "t", "r", "a", "c", "k", "i", "n", "g",
      " ">>
\* "individual performance tracking"
SpacedTracking ==
    <<"i", "n", "d", "i", "v", "i", "d", "u", "a", "l", " ", "p", "e", "r", "f", "o",
      "r", "m", "a", "n", "c", "e", " ", "t", "r", "a", "c", "k", "i", "n", "g">>
\* "aggregate_kpis"
AggregateKpis ==
    <<"a", "g", "g", "r", "e", "g", "a", "t", "e", "_", "k", "p", "i", "s">>

MonitoringTypes ==
    {INDIVIDUAL_PERFORMANCE_TRACKING, MixedCaseTracking, PaddedTracking, SpacedTracking,
     AggregateKpis}

\* dict.get(key, default)
Get(record, key, default) == IF key \in DOMAIN record THEN record[key] ELSE default

\* str.strip()
Strip(s) ==
    LET kept == {i \in DOMAIN s : ~IsSpace(s[i])}
    IN IF kept = {} THEN <<>>
       ELSE SubSeq(s, CHOOSE i \in kept : \A j \in kept : i <= j,
                      CHOOSE i \in kept : \A j \in kept : i >= j)

\* mutant: the monitoring type is compared as it is written
NormalisedAsWritten(monitoring_type) == monitoring_type

\* line 65: .strip().lower()
Normalised(monitoring_type) == LowerSeq(Strip(monitoring_type))

\* line 64
NoticePeriod(record) ==
    Get(record, "notice_period_days", Get(record, "notice_period", 0))

\* lines 62-86 for one record
AuditRecord(record) ==
    LET notice_alert == NoticePeriod(record) < NOTICE_PERIOD_MIN_DAYS
        gdpr_alert == Normalised(Get(record, "monitoring_type", <<>>))
                          = INDIVIDUAL_PERFORMANCE_TRACKING
        alerts == (IF notice_alert THEN <<"WORKS_COUNCIL_ALERT">> ELSE <<>>)
                     \o (IF gdpr_alert THEN <<"GDPR_BETRIEBSRAT_VIOLATION">> ELSE <<>>)
    IN [record |-> record,
        status |-> IF alerts = <<>> THEN "PASS" ELSE "ALERT",
        severity |-> IF gdpr_alert THEN "HIGH" ELSE IF notice_alert THEN "MEDIUM" ELSE "NONE",
        alerts |-> alerts]

\* lines 58-88; a single record is audited as a list of one
check_workforce_scheduling(shift_plan) ==
    LET records == IF shift_plan.is_list THEN shift_plan.value ELSE <<shift_plan.value>>
    IN [i \in DOMAIN records |-> AuditRecord(records[i])]

\* the notice keys a record can carry
NoticeFields ==
    {<<>>,
     [notice_period_days |-> 3],
     [notice_period_days |-> 4],
     [notice_period |-> 2],
     [notice_period |-> 7],
     [notice_period_days |-> 7, notice_period |-> 2]}

ShiftRecords ==
    {[warehouse |-> "Berlin"] @@ n : n \in NoticeFields}
    \cup {[warehouse |-> "Berlin", monitoring_type |-> m] @@ n :
              n \in NoticeFields, m \in MonitoringTypes}

WorkforceCalls ==
    {[fn |-> "check_workforce_scheduling", shift_plan |-> [is_list |-> TRUE, value |-> l]] :
        l \in UNION {[1..n -> ShiftRecords] : n \in 0..MaxRecords}}
    \cup {[fn |-> "check_workforce_scheduling", shift_plan |-> [is_list |-> FALSE, value |-> r]] :
              r \in ShiftRecords}

CheckWorkforceScheduling ==
    /\ call.fn = "check_workforce_scheduling"
    /\ result = NoCall
    /\ result' = [fn |-> call.fn, results |-> check_workforce_scheduling(call.shift_plan)]
    /\ UNCHANGED <<call, portfolio_vars, loader_vars>>

InitCompliance ==
    /\ PortfolioIdle
    /\ LoaderIdle
    /\ call \in GreenClaimCalls \cup WorkforceCalls
    /\ result = NoCall

ComplianceSpec == InitCompliance /\ [][AuditGreenClaims \/ CheckWorkforceScheduling]_vars

GreenAudited == result # NoCall /\ result.fn = "audit_green_claims"

\* the label contains a banned generic term, ignoring case
ContainsBannedTerm(label) ==
    \E k \in DOMAIN BANNED_GREEN_TERMS : Contains(LowerSeq(label), BANNED_GREEN_TERMS[k])

\* C19: audit_green_claims returns one result per input label, in input
\* order; a label is a VIOLATION of severity HIGH exactly when it contains a
\* banned generic term (ignoring case) and no ISO certification id, and
\* otherwise a PASS of severity NONE
C19_GreenClaimStatus ==
    GreenAudited =>
        /\ Len(result.results) = Len(call.product_label_list)
        /\ \A i \in DOMAIN result.results :
              LET label == call.product_label_list[i]
                  row == result.results[i]
              IN /\ row.label = label
                 /\ IF ContainsBannedTerm(label) /\ ~IsoCertPatternSearch(label)
                    THEN row.status = "VIOLATION" /\ row.severity = "HIGH"
                    ELSE row.status = "PASS" /\ row.severity = "NONE"

\* C19 witness: the two labels of the integrity test, a capitalised generic
\* claim and a generic claim with an ISO id
C19_Witness ==
    /\ GreenAudited
    /\ call.product_label_list = <<ClimateNeutralCleaner, EcoFriendlyIsoCertified>>
    /\ result.results[1].status = "VIOLATION"
    /\ result.results[2].status = "PASS"

WorkforceAudited == result # NoCall /\ result.fn = "check_workforce_scheduling"

AuditedRecords ==
    IF call.shift_plan.is_list THEN call.shift_plan.value ELSE <<call.shift_plan.value>>

\* the notice period of a record, a missing one counting as 0
NoticePeriodOrZero(record) ==
    IF "notice_period_days" \in DOMAIN record THEN record.notice_period_days
    ELSE IF "notice_period" \in DOMAIN record THEN record.notice_period
    ELSE 0

MonitoringTypeAsWritten(record) ==
    IF "monitoring_type" \in DOMAIN record THEN record.monitoring_type ELSE <<>>

MonitoringTypeTrimmedLowerCase(record) == LowerSeq(Strip(MonitoringTypeAsWritten(record)))

\* alerts, status and severity of every audited record, for a given reading
\* of the record's monitoring type
WorkforceAlerts(MonitoringType(_)) ==
    WorkforceAudited =>
        /\ Len(result.results) = Len(AuditedRecords)
        /\ \A i \in DOMAIN result.results :
              LET record == AuditedRecords[i]
                  row == result.results[i]
                  works_council == "WORKS_COUNCIL_ALERT" \in Range(row.alerts)
                  gdpr == "GDPR_BETRIEBSRAT_VIOLATION" \in Range(row.alerts)
              IN /\ works_council <=> NoticePeriodOrZero(record) < 4
                 /\ gdpr <=> MonitoringType(record) = INDIVIDUAL_PERFORMANCE_TRACKING
                 /\ row.status = "ALERT" <=> row.alerts # <<>>
                 /\ row.severity = IF gdpr THEN "HIGH"
                                   ELSE IF works_council THEN "MEDIUM" ELSE "NONE"

\* C20 as stated: the GDPR alert is present exactly when monitoring_type is
\* individual_performance_tracking
C20_WorkforceAlertsAsWritten == WorkforceAlerts(MonitoringTypeAsWritten)

\* C20 amended: ... exactly when monitoring_type, stripped of surrounding
\* whitespace and lower-cased, is individual_performance_tracking
C20_WorkforceAlertsNormalised == WorkforceAlerts(MonitoringTypeTrimmedLowerCase)

\* C20 witness: the record of the integrity test (3 days of notice,
\* individual performance tracking) next to a record with neither alert
C20_Witness ==
    /\ WorkforceAudited
    /\ Len(result.results) = 2
    /\ result.results[1].alerts = <<"WORKS_COUNCIL_ALERT", "GDPR_BETRIEBSRAT_VIOLATION">>
    /\ result.results[1].severity = "HIGH"
    /\ result.results[2].alerts = <<>>
    /\ result.results[2].status = "PASS"


\* ---------------------------------------------------------------------------
\* config_loader.load_config.
\* Python dicts are objects: `heap` is the sequence of all dict objects, a dict
\* is a function from its keys to values, and a value is either a scalar
\* ([int |-> n], [str |-> s], [bool |-> b], [none |-> TRUE], [list |-> S]) or a
\* reference [ref |-> address] to another dict.  Numbers are kept in tenths
\* (discount_shift in thousandths).
\* ---------------------------------------------------------------------------
MaxLoads == 2
MaxMutations == 2

IsDict(v) == "ref" \in DOMAIN v

\* d[k] = v
SetItem(d, k, v) == [x \in DOMAIN d \cup {k} |-> IF x = k THEN v ELSE d[x]]

\* the module-level dict; its root is the first object
MARKET_CONFIG ==
    << [meta |-> [ref |-> 2], macro |-> [ref |-> 3], simulation |-> [ref |-> 4],
        macro_scenarios |-> [ref |-> 5]],
       [version |-> [str |-> "2.0.0"]],
       [consumer_climate_index |-> [int |-> -241],
        savings_rate_percent |-> [int |-> 200],
        inflation_percent |-> [int |-> 22]],
       [random_seed |-> [int |-> 42], n_replications |-> [int |-> 80]],
       [base_case |-> [ref |-> 6], downside_stress |-> [ref |-> 7]],
       [consumer_climate_index |-> [int |-> -241],
        savings_rate_percent |-> [int |-> 200],
        inflation_percent |-> [int |-> 22],
        discount_shift |-> [int |-> 0]],
       [consumer_climate_index |-> [int |-> -300],
        savings_rate_percent |-> [int |-> 225],
        inflation_percent |-> [int |-> 35],
        discount_shift |-> [int |-> -12]] >>
MarketConfigRoot == 1

\* the nested value of the dict at address a
RECURSIVE ValueOf(_, _)
ValueOf(h, a) ==
    [k \in DOMAIN h[a] |->
        IF IsDict(h[a][k]) THEN [dict |-> ValueOf(h, h[a][k].ref)] ELSE h[a][k]]

RECURSIVE Reachable(_, _)
Reachable(h, a) ==
    {a} \cup UNION {Reachable(h, h[a][k].ref) :
                        k \in {x \in DOMAIN h[a] : IsDict(h[a][x])}}

Rank(S, a) == Cardinality({x \in S : x < a}) + 1

\* copy.deepcopy: a new object for every dict reachable from a
deepcopy(h, a) ==
    LET R == Reachable(h, a)
        new(x) == Len(h) + Rank(R, x)
        copy(x) == [k \in DOMAIN h[x] |->
                      IF IsDict(h[x][k]) THEN [ref |-> new(h[x][k].ref)]
                      ELSE h[x][k]]
    IN [heap |-> h \o [i \in 1..Cardinality(R) |->
                          copy(CHOOSE x \in R : Rank(R, x) = i)],
        root |-> new(a)]

\* json.loads of the file's text: fresh objects on every call
json_loads(h, text) ==
    [heap |-> h \o [i \in 1..Len(text) |->
                      [k \in DOMAIN text[i] |->
                         IF IsDict(text[i][k])
                         THEN [ref |-> Len(h) + text[i][k].ref]
                         ELSE text[i][k]]],
     root |-> Len(h) + 1]

RECURSIVE merge_overrides(_, _, _, _)
merge_overrides(h, config, overrides, todo) ==
    IF todo = {} THEN h
    ELSE LET key == CHOOSE k \in todo : TRUE
             value == h[overrides][key]
             merged ==
                IF /\ IsDict(value)
                   /\ key \in DOMAIN h[config]
                   /\ IsDict(h[config][key])
                THEN merge_overrides(h, h[config][key].ref, value.ref,
                                     DOMAIN h[value.ref])
                ELSE [h EXCEPT ![config] = SetItem(@, key, value)]
         IN merge_overrides(merged, config, overrides, todo \ {key})

\* config.setdefault("meta", {})
SetDefaultMeta(h, config) ==
    IF "meta" \in DOMAIN h[config] THEN h
    ELSE [Append(h, <<>>) EXCEPT ![config] =
              SetItem(@, "meta", [ref |-> Len(h) + 1])]

\* config["meta"] gets the entries of the record `entries`
SetMeta(h, config, entries) ==
    LET h1 == SetDefaultMeta(h, config)
        meta == h1[config].meta.ref
    IN [h1 EXCEPT ![meta] =
           [k \in DOMAIN @ \cup DOMAIN entries |->
               IF k \in DOMAIN entries THEN entries[k] ELSE @[k]]]

\* d.get(key) of the dict at address a
DictGet(h, a, key) ==
    IF key \in DOMAIN h[a] THEN h[a][key] ELSE [none |-> TRUE]

Truthy(v) ==
    IF "bool" \in DOMAIN v THEN v.bool
    ELSE IF "int" \in DOMAIN v THEN v.int # 0
    ELSE IF "none" \in DOMAIN v THEN FALSE
    ELSE TRUE

\* the try block of load_config
ApplyRefresh(h, config, file) ==
    IF ~file.parses
    THEN SetMeta(h, config, [refresh_data_used |-> [bool |-> FALSE]])
    ELSE LET loaded_payload == json_loads(h, file.text)
             payload == loaded_payload.root
             h1 == IF "overrides" \in DOMAIN loaded_payload.heap[payload]
                   THEN loaded_payload.heap
                   ELSE Append(loaded_payload.heap, <<>>)
             overrides == IF "overrides" \in DOMAIN h1[payload]
                          THEN h1[payload].overrides
                          ELSE [ref |-> Len(h1)]
             quality_gate == Truthy(DictGet(h1, payload, "quality_gate_passed"))
         IN IF IsDict(overrides) /\ quality_gate
            THEN SetMeta(merge_overrides(h1, config, overrides.ref,
                                         DOMAIN h1[overrides.ref]),
                         config,
                         [refresh_data_used |-> [bool |-> TRUE],
                          refresh_generated_at |->
                              DictGet(h1, payload, "generated_at"),
                          refresh_overrides_keys |->
                              [list |-> DOMAIN h1[overrides.ref]]])
            ELSE SetMeta(h1, config,
                         [refresh_data_used |-> [bool |-> FALSE],
                          refresh_generated_at |->
                              DictGet(h1, payload, "generated_at"),
                          refresh_rejected |-> [bool |-> TRUE]])

ALIGNED_KEYS ==
    {"consumer_climate_index", "savings_rate_percent", "inflation_percent"}

\* base_case[key] = macro[key] for the three keys that macro has
AlignBaseCase(h, config) ==
    IF \/ "macro_scenarios" \notin DOMAIN h[config]
       \/ "macro" \notin DOMAIN h[config]
    THEN h
    ELSE LET scenarios == h[config].macro_scenarios.ref
             macro == h[config].macro.ref
             keys == ALIGNED_KEYS \cap DOMAIN h[macro]
         IN IF "base_case" \notin DOMAIN h[scenarios] THEN h
            ELSE [h EXCEPT ![h[scenarios].base_case.ref] =
                     [k \in DOMAIN @ \cup keys |->
                         IF k \in keys THEN h[macro][k] ELSE @[k]]]

\* copy.copy instead: a new root object holding the same references
CopyOfMarketConfigShallow(h) ==
    [heap |-> Append(h, h[MarketConfigRoot]), root |-> Len(h) + 1]
\* config = deepcopy(MARKET_CONFIG)
CopyOfMarketConfig(h) == deepcopy(h, MarketConfigRoot)

load_config(h, use_refresh, file) ==
    LET copied == CopyOfMarketConfig(h)
        config == copied.root
        refreshed == IF use_refresh /\ file.exists
                     THEN ApplyRefresh(copied.heap, config, file)
                     ELSE copied.heap
    IN [heap |-> AlignBaseCase(refreshed, config), root |-> config]

\* data/latest_inputs.json: its parsed text, the root object first
InflationOverride == [inflation_percent |-> [int |-> 30]]
BaseCaseOverride == [inflation_percent |-> [int |-> 25]]
RefreshText(overrides, gate) ==
    << [overrides |-> [ref |-> 2],
        quality_gate_passed |-> [bool |-> gate],
        generated_at |-> [str |-> "2026-02-14"]] >> \o overrides
RefreshFile(text) == [exists |-> TRUE, parses |-> TRUE, text |-> text]
MacroOverrides == << [macro |-> [ref |-> 3]], InflationOverride >>
ScenarioOverrides ==
    << [macro_scenarios |-> [ref |-> 3]], [base_case |-> [ref |-> 4]],
       BaseCaseOverride >>
MacroAndScenarioOverrides ==
    << [macro |-> [ref |-> 3], macro_scenarios |-> [ref |-> 4]],
       InflationOverride, [base_case |-> [ref |-> 5]], BaseCaseOverride >>
NewSectionOverrides ==
    << [channels |-> [ref |-> 3]], [online_share |-> [int |-> 1]] >>
RefreshFiles ==
    { [exists |-> FALSE],
      [exists |-> TRUE, parses |-> FALSE],
      RefreshFile(RefreshText(MacroOverrides, TRUE)),
      RefreshFile(RefreshText(MacroOverrides, FALSE)),
      RefreshFile(RefreshText(ScenarioOverrides, TRUE)),
      RefreshFile(RefreshText(MacroAndScenarioOverrides, TRUE)),
      RefreshFile(RefreshText(NewSectionOverrides, TRUE)),
      RefreshFile(<< [generated_at |-> [str |-> "2026-02-14"],
                      quality_gate_passed |-> [bool |-> TRUE]] >>) }

\* what a caller assigns in a config it was given: cfg[path...][key] = value
MutationTargets ==
    { [path |-> <<"simulation">>, key |-> "n_replications"],
      [path |-> <<"simulation">>, key |-> "random_seed"],
      [path |-> <<"macro">>, key |-> "inflation_percent"],
      [path |-> <<"macro_scenarios", "base_case">>,
       key |-> "consumer_climate_index"],
      [path |-> <<>>, key |-> "simulation"] }
MutationValues == {3}

\* the address of cfg[path[1]][path[2]]..., 0 when that is not a dict
RECURSIVE Resolve(_, _, _)
Resolve(h, a, path) ==
    IF path = <<>> THEN a
    ELSE IF Head(path) \in DOMAIN h[a] /\ IsDict(h[a][Head(path)])
         THEN Resolve(h, h[a][Head(path)].ref, Tail(path))
         ELSE 0

InitConfig ==
    /\ PortfolioIdle
    /\ call = NoCall
    /\ result = NoCall
    /\ heap = MARKET_CONFIG
    /\ loaded = <<>>
    /\ refresh_data \in RefreshFiles

LoadConfig ==
    /\ Len(loaded) < MaxLoads
    /\ \E use_refresh \in BOOLEAN :
         \E r \in {load_config(heap, use_refresh, refresh_data)} :
            /\ heap' = r.heap
            /\ loaded' = Append(loaded,
                                [root |-> r.root,
                                 use_refresh |-> use_refresh,
                                 returned |-> ValueOf(r.heap, r.root),
                                 mutations |-> 0])
    /\ UNCHANGED <<refresh_data, call, result, portfolio_vars>>

MutateConfig ==
    /\ SumOver(DOMAIN loaded, [i \in DOMAIN loaded |-> loaded[i].mutations])
         < MaxMutations
    /\ \E i \in DOMAIN loaded, t \in MutationTargets, v \in MutationValues :
         \E obj \in {Resolve(heap, loaded[i].root, t.path)} :
            /\ obj # 0
            /\ heap' = [heap EXCEPT ![obj] = SetItem(@, t.key, [int |-> v])]
            /\ loaded' = [loaded EXCEPT ![i].mutations = @ + 1]
    /\ UNCHANGED <<refresh_data, call, result, portfolio_vars>>

ConfigSpec == InitConfig /\ [][LoadConfig \/ MutateConfig]_vars

\* C21: whatever load_config calls and assignments into the returned configs
\* have happened, MARKET_CONFIG still has its original value, a returned config
\* nobody assigned into still has the value it was returned with, and two
\* calls with the same use_refresh returned equal values.
C21_IndependentDeepCopy ==
    /\ ValueOf(heap, MarketConfigRoot) = ValueOf(MARKET_CONFIG, MarketConfigRoot)
    /\ \A i \in DOMAIN loaded :
          loaded[i].mutations = 0 =>
              ValueOf(heap, loaded[i].root) = loaded[i].returned
    /\ \A i, j \in DOMAIN loaded :
          loaded[i].use_refresh = loaded[j].use_refresh =>
              loaded[i].returned = loaded[j].returned

\* a config was changed by its caller and load_config was called again
C21_Witness ==
    /\ Len(loaded) = 2
    /\ loaded[1].use_refresh = loaded[2].use_refresh
    /\ loaded[1].mutations > 0
    /\ ValueOf(heap, loaded[1].root) # loaded[1].returned
    /\ "simulation" \in DOMAIN heap[loaded[1].root]
    /\ ~IsDict(heap[loaded[1].root].simulation)

\* the overrides of a refresh file that load_config accepts, as a nested value
RefreshAccepted(file) ==
    /\ file.exists
    /\ file.parses
    /\ Truthy(DictGet(file.text, 1, "quality_gate_passed"))
OverridesOf(file) ==
    IF "overrides" \in DOMAIN file.text[1]
    THEN ValueOf(file.text, 1).overrides.dict
    ELSE <<>>
\* the value the overrides give to macro_scenarios.base_case[key], if any
BaseCaseOverridden(file, key) ==
    /\ "macro_scenarios" \in DOMAIN OverridesOf(file)
    /\ "base_case" \in DOMAIN OverridesOf(file).macro_scenarios.dict
    /\ key \in DOMAIN OverridesOf(file).macro_scenarios.dict.base_case.dict
BaseCaseOverrideValue(file, key) ==
    OverridesOf(file).macro_scenarios.dict.base_case.dict[key]

\* C28: in a config returned by load_config, each of base_case's
\* consumer_climate_index, savings_rate_percent and inflation_percent equals
\* the active macro value, unless the accepted refresh overrides give an
\* explicit value for that base_case entry, which is then kept.
C28_BaseCaseOverrideKept ==
    \A i \in DOMAIN loaded : \A key \in ALIGNED_KEYS :
        LET returned == loaded[i].returned
            base_case == returned.macro_scenarios.dict.base_case.dict
            macro == returned.macro.dict
        IN IF /\ loaded[i].use_refresh
              /\ RefreshAccepted(refresh_data)
              /\ BaseCaseOverridden(refresh_data, key)
           THEN base_case[key] = BaseCaseOverrideValue(refresh_data, key)
           ELSE base_case[key] = macro[key]

\* ---------------------------------------------------------------------------
\* The greedy loop on tables of candidates only: every city has a positive
\* objective (GO, or CONDITIONAL for its loss probability) and there is at
\* least one planning year.
\* ---------------------------------------------------------------------------
CandidateCityInputs ==
    {cs \in CityInputs : \A i \in DOMAIN cs : cs[i].objective > GO_MIN_OBJECTIVE}
PlannedConfigInputs == {c \in ConfigInputs : c.budgets # <<>>}

InitWindow ==
    /\ cities \in CandidateCityInputs
    /\ cfg \in PlannedConfigInputs
    /\ pc = "start"
    /\ df_index_arr = <<>>
    /\ year = 0
    /\ launched_mask = {}
    /\ state_mask_first3 = {}
    /\ schedule = <<>>
    /\ optimization_feasible = TRUE
    /\ plan = [i \in 1..NumCities |-> DefaultRow]
    /\ call = NoCall
    /\ result = NoCall
    /\ LoaderIdle

WindowSpec == InitWindow /\ [][Next]_vars

\* ---------------------------------------------------------------------------
\* The greedy selection, restated from the committed schedule.
\* ---------------------------------------------------------------------------
\* candidates launched, and states secured inside the window, before year y
LaunchedBefore(y) == UNION {Range(schedule[k]) : k \in 1..(y - 1)}
SecuredBefore(y) ==
    UNION {state_mask_arr(cid) :
              cid \in LaunchedBefore(Min(y, first3_years + 1))}

\* distinct states the window can still end with after b is launched in year y
ReachableStateCount(b, y) ==
    LET launched == LaunchedBefore(y) \cup b.mask
        secured == SecuredBefore(y) \cup b.state_mask
        open == UNION {state_mask_arr(cid) : cid \in (1..n_candidates) \ launched}
        launches == SumOver((y + 1)..first3_years, cfg.max_new)
    IN Cardinality(secured) + Min(Cardinality(open \ secured), launches)

\* b may be selected in year y: it shares no city with the earlier years and
\* is not discarded by the lookahead
Eligible(b, y) ==
    /\ b.mask \cap LaunchedBefore(y) = {}
    /\ y <= first3_years =>
          /\ ReachableStateCount(b, y) >= required_states
          /\ y = first3_years =>
                Cardinality(SecuredBefore(y) \cup b.state_mask) >= required_states

\* sum of the objectives plus the diversification bonus
AdjustedScore(b, y) ==
    SumOver(b.mask, [cid \in b.mask |-> objective_arr(cid)])
    + (IF y <= first3_years
       THEN Cardinality(b.state_mask \ SecuredBefore(y))
              * DIVERSIFICATION_BONUS * (first3_years - y + 1)
       ELSE 0)

LastYear == Len(schedule)
LastBundles == yearly_bundles(LastYear)
JustSelected == pc \in {"greedy", "postscan"} /\ schedule # <<>>

\* C22: the bundle the greedy loop has just committed for a year is eligible
\* (no city launched earlier, lookahead passed) and no eligible bundle of that
\* year has a higher bonus-adjusted score; among the eligible bundles of equal
\* adjusted score it is the first in the year's list, which is in descending
\* order of raw score.
C22_GreedyPicksBest ==
    JustSelected =>
        \E bundles \in {LastBundles} :
            \E chosen \in {i \in DOMAIN bundles : bundles[i].ids = schedule[LastYear]} :
                /\ Eligible(bundles[chosen], LastYear)
                /\ \A j \in DOMAIN bundles :
                      Eligible(bundles[j], LastYear) =>
                          \/ AdjustedScore(bundles[j], LastYear)
                                < AdjustedScore(bundles[chosen], LastYear)
                          \/ /\ AdjustedScore(bundles[j], LastYear)
                                  = AdjustedScore(bundles[chosen], LastYear)
                             /\ j >= chosen
                /\ \A i, j \in DOMAIN bundles :
                      i < j => bundles[i].score >= bundles[j].score

\* the position in the year's list of the bundle committed for year y
ChosenIn(y) ==
    CHOOSE i \in DOMAIN yearly_bundles(y) : yearly_bundles(y)[i].ids = schedule[y]
\* an eligible bundle of higher raw score lost year y to the bonus
BonusDecided(y) ==
    \E j \in DOMAIN yearly_bundles(y) :
        /\ Eligible(yearly_bundles(y)[j], y)
        /\ yearly_bundles(y)[j].score > yearly_bundles(y)[ChosenIn(y)].score
\* a later eligible bundle of the list tied with the one committed for year y
TieDecided(y) ==
    \E j \in DOMAIN yearly_bundles(y) :
        /\ j > ChosenIn(y)
        /\ Eligible(yearly_bundles(y)[j], y)
        /\ AdjustedScore(yearly_bundles(y)[j], y)
              = AdjustedScore(yearly_bundles(y)[ChosenIn(y)], y)

\* the bonus decided one committed year and the order of the list another
C22_Witness ==
    /\ JustSelected
    /\ \E y \in DOMAIN schedule : BonusDecided(y)
    /\ \E y \in DOMAIN schedule : TieDecided(y)

\* ---------------------------------------------------------------------------
\* The lookahead against an exhaustive search of the remaining window years.
\* ---------------------------------------------------------------------------
\* the ways to launch still unlaunched candidates in the window years after y:
\* each candidate in at most one year (0 is never), each year within its limit
LaunchChoices(unlaunched, y) ==
    {choice \in [unlaunched -> {0} \cup ((y + 1)..first3_years)] :
        \A k \in (y + 1)..first3_years :
            Cardinality({cid \in unlaunched : choice[cid] = k}) <= cfg.max_new[k]}

\* after b is selected in year y, some choice of later launches ends the
\* window with the required number of distinct states
RequirementReachable(b, y) ==
    LET unlaunched == (1..n_candidates) \ (launched_mask \cup b.mask)
        secured == state_mask_first3 \cup b.state_mask
    IN \E choice \in LaunchChoices(unlaunched, y) :
          Cardinality(secured \cup
                      UNION {state_mask_arr(cid) :
                                cid \in {c \in unlaunched : choice[c] # 0}})
            >= required_states

InWindowYear == pc = "greedy" /\ year <= first3_years

\* C23: in a year inside the window, a bundle that shares no city with the
\* launched ones is discarded by the lookahead exactly when no choice of
\* launches for the remaining window years, within the per-year launch limits
\* and among the unlaunched candidates, reaches the required number of distinct
\* states; in the last window year it is kept only if the requirement is met
\* with the bundle itself.
C23_LookaheadExact ==
    InWindowYear =>
        \E bundles \in {yearly_bundles(year)} :
            \A i \in DOMAIN bundles :
                ~Overlaps(bundles[i]) =>
                    /\ Survives(bundles[i], year) <=> RequirementReachable(bundles[i], year)
                    /\ year = first3_years =>
                          (Survives(bundles[i], year) <=>
                              Cardinality(state_mask_first3 \cup bundles[i].state_mask)
                                 >= required_states)

\* after a first year was committed, the lookahead discards one bundle of the
\* year although later window years remain, and keeps another
C23_Witness ==
    /\ InWindowYear
    /\ 1 < year
    /\ year < first3_years
    /\ \E i, j \in DOMAIN yearly_bundles(year) :
          /\ ~Overlaps(yearly_bundles(year)[i])
          /\ ~Survives(yearly_bundles(year)[i], year)
          /\ yearly_bundles(year)[j].ids # <<>>
          /\ Survives(yearly_bundles(year)[j], year)

\* ---------------------------------------------------------------------------
\* Greedy infeasibility against the existence of a feasible assignment.
\* ---------------------------------------------------------------------------
PlanInfeasible ==
    /\ Done
    /\ \A i \in Rows : plan[i].optimization_status = "INFEASIBLE_CONSTRAINT_SET"

\* an assignment of candidates to years (0 is never) within every year's
\* launch limit, usable budget and risk cap, and with the configured number of
\* distinct states inside the window
SatisfiesConstraints(assignment) ==
    /\ \A y \in 1..planning_years :
          LET launched == {cid \in DOMAIN assignment : assignment[cid] = y}
          IN /\ Cardinality(launched) <= cfg.max_new[y]
             /\ SumOver(launched, [cid \in launched |-> capex_arr(cid)]) * 100
                   <= UsableBudget100(y)
             /\ SumOver(launched, [cid \in launched |-> loss_arr(cid)])
                   <= cfg.caps[y] * Cardinality(launched)
    /\ Cardinality(UNION {state_mask_arr(cid) :
                             cid \in {c \in DOMAIN assignment :
                                         assignment[c] \in 1..first3_years}})
          >= cfg.min_distinct
FeasibleAssignmentExists ==
    \E assignment \in [1..n_candidates -> 0..planning_years] :
        SatisfiesConstraints(assignment)

\* C24: the greedy loop commits the years in order and never returns to one:
\* while it runs, the years before the current one are exactly the committed
\* ones, and a plan is reported infeasible as soon as the year after the
\* committed ones has no eligible bundle, whatever other choice the earlier
\* years had (or, with every year committed, when the window is short of
\* states).
C24_InfeasibleOnCommittedPrefix ==
    /\ pc = "greedy" => Len(schedule) = year - 1
    /\ PlanInfeasible =>
          \/ /\ Len(schedule) < planning_years
             /\ \A i \in DOMAIN yearly_bundles(Len(schedule) + 1) :
                   ~Eligible(yearly_bundles(Len(schedule) + 1)[i], Len(schedule) + 1)
          \/ /\ Len(schedule) = planning_years
             /\ Cardinality(SecuredBefore(planning_years + 1)) < required_states

\* an input for which the plan is reported infeasible although an assignment
\* satisfying every constraint exists
C24_Witness ==
    /\ PlanInfeasible
    /\ Len(schedule) >= 1
    /\ FeasibleAssignmentExists

\* ---------------------------------------------------------------------------
\* The columns written back for a feasible schedule.
\* ---------------------------------------------------------------------------
\* the optimizer ran and did not report an infeasible constraint set
PlanFeasible ==
    /\ Done
    /\ \A i \in Rows :
          plan[i].optimization_status \in {"UNASSIGNED", "HARD_CONSTRAINED_SELECTION"}

\* C25: in a successful plan a city is flagged selected_by_optimizer exactly
\* when its rollout_year is at least 1, exactly when its status is
\* HARD_CONSTRAINED_SELECTION; a selected city carries its year's gross budget
\* and risk cap, and as year_capex_used_eur / year_loss_risk_avg the capex sum /
\* mean loss probability of all cities assigned to the same year; every other
\* city, candidate or NO-GO, keeps rollout_year -1 and status UNASSIGNED.
C25_WriteBackColumns ==
    PlanFeasible =>
        \A i \in Rows :
            LET y == plan[i].rollout_year
                same_year == AssignedTo(y)
            IN /\ plan[i].selected_by_optimizer <=> y >= 1
               /\ y >= 1 <=> plan[i].optimization_status = "HARD_CONSTRAINED_SELECTION"
               /\ y >= 1 =>
                     /\ y <= planning_years
                     /\ plan[i].year_capex_budget_eur = cfg.budgets[y]
                     /\ plan[i].year_risk_cap = cfg.caps[y]
                     /\ plan[i].year_capex_used_eur = SumOver(same_year, capex_of)
                     /\ plan[i].year_loss_risk_avg.num * Cardinality(same_year)
                           = SumOver(same_year, loss_of) * plan[i].year_loss_risk_avg.den
                     /\ plan[i].year_loss_risk_avg.den > 0
               /\ y < 1 =>
                     /\ y = UNASSIGNED_YEAR
                     /\ plan[i].optimization_status = "UNASSIGNED"

\* a plan with two cities in one year and a candidate that was not selected
C25_Witness ==
    /\ PlanFeasible
    /\ \E y \in 1..planning_years : Cardinality(AssignedTo(y)) = 2
    /\ \E i \in Rows : board_signal(i) # "NO-GO" /\ plan[i].rollout_year = UNASSIGNED_YEAR

\* ---------------------------------------------------------------------------
\* The board signal at its thresholds.
\* ---------------------------------------------------------------------------
SignalCities == 2

\* objectives around 0 and -2,000,000 EUR, loss probabilities around 0.35 and 0.55
SignalObjectives == {-21, -20, -19, 0, 1}
SignalLosses == {35, 36, 55, 56}
SignalProfiles ==
    {[objective |-> o, loss |-> l, capex |-> 4, state |-> s] :
        o \in SignalObjectives, l \in SignalLosses, s \in {"HE"}}
SignalConfig ==
    ConfigOf([y \in 1..2 |-> [budget |-> 15, max_new |-> 1, cap |-> 50]], 10, 1)

InitSignal ==
    /\ cities \in {cs \in [1..SignalCities -> SignalProfiles] :
                      \A i \in 1..(SignalCities - 1) :
                          cs[i].objective >= cs[i + 1].objective}
    /\ cfg = SignalConfig
    /\ pc = "start"
    /\ df_index_arr = <<>>
    /\ year = 0
    /\ launched_mask = {}
    /\ state_mask_first3 = {}
    /\ schedule = <<>>
    /\ optimization_feasible = TRUE
    /\ plan = [i \in 1..SignalCities |-> DefaultRow]
    /\ call = NoCall
    /\ result = NoCall
    /\ LoaderIdle

SignalSpec == InitSignal /\ [][Next]_vars

\* C26: a city's board signal is GO exactly when its objective is above 0 and
\* its loss probability at most 0.35; otherwise CONDITIONAL exactly when the
\* objective is above -2,000,000 and the loss probability at most 0.55;
\* otherwise NO-GO.  The optimizer's candidates are exactly the GO and
\* CONDITIONAL cities.
C26_BoardSignalThresholds ==
    /\ \A i \in DOMAIN cities :
          LET go == cities[i].objective > 0 /\ cities[i].loss <= 35
              conditional == cities[i].objective > -20 /\ cities[i].loss <= 55
          IN /\ board_signal(i) = "GO" <=> go
             /\ board_signal(i) = "CONDITIONAL" <=> (~go /\ conditional)
             /\ board_signal(i) = "NO-GO" <=> (~go /\ ~conditional)
    /\ pc # "start" =>
          /\ Range(df_index_arr) =
                {i \in DOMAIN cities : board_signal(i) \in {"GO", "CONDITIONAL"}}
          /\ \A a, b \in DOMAIN df_index_arr : a < b => df_index_arr[a] < df_index_arr[b]

\* the candidates were selected from a GO city exactly at the loss threshold
\* and a city that is NO-GO only because its objective is exactly -2,000,000
C26_Witness ==
    /\ pc # "start"
    /\ Len(cities) = 2
    /\ cities[1].objective = 1 /\ cities[1].loss = 35
    /\ cities[2].objective = -20 /\ cities[2].loss = 35
    /\ df_index_arr = <<1>>

\* ---------------------------------------------------------------------------
\* Payback year.
\* ---------------------------------------------------------------------------
\* running sum of the undiscounted free cash flows up to year y
CumulativeFcf(y) == SumSeq(SubSeq(result.free_cash_flow_eur, 1, y))

\* C27: payback_year is the least year of 1..horizon in which the running sum
\* of the undiscounted free cash flows is non-negative, and -1 when there is
\* none; later years do not change it, even when the running sum is negative
\* again.
C27_PaybackYearIsFirst ==
    ValuationReturned =>
        IF \E y \in 1..call.horizon : CumulativeFcf(y) >= 0
        THEN /\ result.payback_year \in 1..call.horizon
             /\ CumulativeFcf(result.payback_year) >= 0
             /\ \A y \in 1..(result.payback_year - 1) : CumulativeFcf(y) < 0
        ELSE result.payback_year = -1

\* the running sum is negative again after the payback year
C27_Witness ==
    /\ ValuationReturned
    /\ result.payback_year \in 1..(call.horizon - 1)
    /\ CumulativeFcf(call.horizon) < 0

\* ---------------------------------------------------------------------------
\* The enforced number of distinct states.
\* ---------------------------------------------------------------------------
CandidateStates == {cities[i].state : i \in {j \in Rows : board_signal(j) # "NO-GO"}}
EnforcedStates == Min(cfg.min_distinct, Cardinality(CandidateStates))

WindowEnd == Min(3, planning_years)
EveryYearSelected == pc \in {"postscan", "done"} /\ Len(schedule) = planning_years

\* the year the greedy loop fails in is a window year; in a year after the
\* window the empty bundle overlaps nothing and is not filtered, so a bundle is
\* selected; when every year has selected a bundle, the states secured by the
\* end of a window of at least shortest_window years meet the required count,
\* and the post-scan check leaves the plan feasible
InfeasibleOnlyInsideWindow(shortest_window) ==
    /\ ~optimization_feasible => Len(schedule) + 1 \in 1..WindowEnd
    /\ (pc = "greedy" /\ year > WindowEnd) =>
          /\ Survives(EmptyBundle, year)
          /\ \E bundles \in {yearly_bundles(year)} :
                /\ \E i \in DOMAIN bundles : bundles[i] = EmptyBundle
                /\ ScanBundles(bundles, 1, 0, year) # 0
    /\ EveryYearSelected =>
          /\ optimization_feasible
          /\ WindowEnd >= shortest_window =>
                Cardinality(SecuredBefore(WindowEnd + 1)) >= required_states
          /\ Done => \A i \in Rows :
                        plan[i].optimization_status # "INFEASIBLE_CONSTRAINT_SET"

\* C30 as stated: infeasibility arises only in a year inside the window, a
\* year after the window always selects a bundle, and whenever every year has
\* selected a bundle the states secured by the end of the window meet the
\* required count, so that the post-scan check never turns the plan infeasible.
C30_InfeasibleOnlyInsideWindow == InfeasibleOnlyInsideWindow(0)

\* C30 amended: the same, the secured states meeting the required count
\* whenever the planning horizon, and so the window, has at least one year;
\* with an empty horizon nothing is secured and the post-scan check is skipped.
C30_InfeasibleOnlyInsideNonEmptyWindow == InfeasibleOnlyInsideWindow(1)

\* a finished plan whose year after the window selected the empty bundle
C30_Witness ==
    /\ Done
    /\ EveryYearSelected
    /\ PlanReportsSuccess
    /\ planning_years > WindowEnd
    /\ schedule[planning_years] = <<>>

====
